---- MODULE Spec2Model ----
(***************************************************************************)
(* A model of lup-system's sampling-and-normalisation engine.              *)
(*                                                                         *)
(*  - the CPU delta sampler of src/src/cpu.ts (module state, the lazy      *)
(*    start of getCpuUtilization, the timer loop, the stop call);          *)
(*  - the network delta sampler of net.ts (src/src/drive.ts:371-501);      *)
(*  - getDrives of drive.ts (src/src/drive.ts:38-90).                      *)
(*                                                                         *)
(* The host runtime is single threaded: a handler runs from one suspension *)
(* point (await) to the next without interruption, so each action below is *)
(* one such run.  Between two runs of one async function any other handler *)
(* may run.                                                                *)
(***************************************************************************)
EXTENDS Integers, Sequences, FiniteSets, TLC

(***************************************************************************)
(* Bounds of the model.                                                    *)
(***************************************************************************)
\* concurrent callers of a read request
MaxReaders == 2
\* timer handles that can be pending at once
MaxTimers == 2
\* timer-started loop iterations that can be suspended at once
MaxLoops == 1
\* counter increments of the operating system while the sampler races
SamplerTicks == 1
\* counter increments of the operating system in the tick specification
MaxTicks == 3
\* cores the operating system can bring online
MaxCores == 2
\* rows of the drive listing
MaxDriveRows == 3

TimerIds == 1..MaxTimers
\* the null timer handle
Null == 0

VARIABLES
    \* ---- which sampler the behaviour exercises (they share no state)
    domain,
    \* ---- the tunables (src/src/cpu.ts:33, src/src/drive.ts:372), in milliseconds
    CPU_COMPUTE_UTILIZATION_INTERVAL,
    NET_COMPUTE_UTILIZATION_INTERVAL,
    \* ---- src/src/cpu.ts module state
    PREV_CPU_CORES,
    CPU_UTILIZATION,
    CPU_COMPUTE_RUNNING,
    CPU_COMPUTE_TIMEOUT,
    \* ---- the runtime: pending timers, suspended async functions
    cpuTimers,      \* pending setTimeout(runCpuComputeInterval) handles
    cpuDelay,       \* the delay setTimeout was last called with (0: never called)
    cpuLoops,       \* timer-started runCpuComputeInterval calls suspended at their await
    \* ---- net.ts module state (src/src/drive.ts:371-378)
    NET_LAST_COMPUTE,
    NET_LAST_STATS,
    NET_BYTES_PER_SECOND,
    NET_COMPUTE_RUNNING,
    NET_COMPUTE_TIMEOUT,
    netTimers,      \* pending setTimeout(runNetComputeInterval) handles
    netDelay,       \* the delay setTimeout was last called with (0: never called)
    netLoops,       \* timer-started runNetComputeInterval calls suspended at their await
    platform,       \* process.platform
    pc,             \* how many callers of a read request are at each place of it
    lastResult,     \* what the read request that resolved last resolved with
    \* ---- the operating system
    osCpus,         \* tick counters of every core
    osOnline,       \* number of cores os.cpus() lists
    osNet,          \* byte counters of every network adapter
    now,            \* Date.now()
    linkSpeed,      \* the link speed the platform's source reports for an adapter
    \* ---- a call of getDrives (src/src/drive.ts:38-90)
    drvPc,          \* "idle", "exec" (awaiting the command), "resolved" or "rejected"
    includeVirtual, \* the argument of the call
    drives,         \* the list the call resolved with
    \* ---- a call of getTemperatures (src/src/drive.ts:139-292)
    tmpPc,          \* "idle", "thermalDir", "hwmonDir", "batch", "winQuery", "nvidia",
                    \* "resolved" or "rejected"
    temperatures,   \* the object the call fills
    zoneTask,       \* the task of each thermal zone of the batch (drive.ts:147-173)
    hwmonTask,      \* the task of each hwmon device of the batch (drive.ts:174-221)
    sensorReads,    \* history: the readings the tasks of the batch have classified,
                    \* of each zone and each hwmon device
    \* ---- a call of getGPUs (src/unnamed/part_006:58-198)
    gpuPc,          \* "idle", "inventory", "nvidia" or "resolved"
    gpus,           \* the list the call fills
    gpuLines,       \* history: the lines the inventory tool printed
    gpuBase,        \* history: the list before the rows of nvidia-smi were merged
    gpuRows,        \* history: the rows of nvidia-smi
    \* ---- a call of getDockerContainers (src/unnamed/part_008:83-192)
    dockPc,         \* "idle", "exec" (awaiting the command) or "resolved"
    containers,     \* the list the call resolved with
    dockLines,      \* history: the objects docker printed, one per line
    \* ---- calls of checkIfPortIsInUse (src/src/drive.ts:472-489)
    listeners,      \* the ports other servers listen on
    privileged,     \* the process may bind the ports below 1024
    probePc,        \* of every probe: "idle", "listen" (server.listen was called),
                    \* "listening" or "error" (the event is about to be emitted), "resolved"
    probeCode,      \* of every probe: the code of the error its server emits
    bound,          \* the probes whose server holds its port
    probePort,      \* of every probe: the port it was called with
    probeResult,    \* of every probe: what it resolved with
    probeHeld,      \* history: a server held the port when the probe tried to bind it
    \* ---- a call of getMemoryInfo (src/unnamed/part_004:78-353)
    memPc,          \* "idle", "exec" (awaiting the command) or "resolved"
    memoryInfo,     \* devices and bandwidth of the object the call resolved with
    interleavePositions, \* the set of the call (part_004:87)
    memLines,       \* history: the lines the tool printed
    \* ---- history (not program state)
    hLast,          \* the last step: "start" (a read request was issued and started the
                    \* sampler), "hit" (one was issued, found it RUNNING and suspended),
                    \* "hitreturn" (one was issued, found it RUNNING and resolved at
                    \* once), "return" (a suspended one resolved), "stop" (a stop
                    \* call), "stopagain" (a stop call right after a stop call),
                    \* "failed" (the command of getDrives failed), or "other"
    hSnaps,         \* snapshots taken since the sampler last left STOPPED (capped at 2)
    hStarts,        \* loops started by read requests since the last stop call (capped at 2)
    hStopped,       \* a stop call returned and no read request was issued since
    hEverStarted,   \* some read request was ever issued
    hPrevPreStop,   \* the held snapshot was taken before the last stop call
    hRatePreStop    \* the published rate was derived, after a restart, from such a snapshot

tunables == <<CPU_COMPUTE_UTILIZATION_INTERVAL, NET_COMPUTE_UTILIZATION_INTERVAL>>
cpuVars == <<PREV_CPU_CORES, CPU_UTILIZATION, CPU_COMPUTE_RUNNING, CPU_COMPUTE_TIMEOUT,
             cpuTimers, cpuDelay, cpuLoops>>
netVars == <<NET_LAST_COMPUTE, NET_LAST_STATS, NET_BYTES_PER_SECOND, NET_COMPUTE_RUNNING,
             NET_COMPUTE_TIMEOUT, netTimers, netDelay, netLoops>>
osVars == <<osCpus, osOnline, osNet, now, linkSpeed>>
histVars == <<hLast, hSnaps, hStarts, hStopped, hEverStarted, hPrevPreStop, hRatePreStop>>
drvVars == <<drvPc, includeVirtual, drives>>
tmpVars == <<tmpPc, temperatures, zoneTask, hwmonTask, sensorReads>>
gpuVars == <<gpuPc, gpus, gpuLines, gpuBase, gpuRows>>
dockVars == <<dockPc, containers, dockLines>>
portVars == <<listeners, privileged, probePc, probeCode, bound, probePort, probeResult,
              probeHeld>>
memVars == <<memPc, memoryInfo, interleavePositions, memLines>>
\* what a call of getTemperatures leaves alone
notTmp == <<domain, platform, tunables, cpuVars, netVars, pc, lastResult, osVars, histVars, drvVars,
            gpuVars, dockVars, portVars, memVars>>
\* what a call of getGPUs leaves alone
notGpu == <<domain, platform, tunables, cpuVars, netVars, pc, lastResult, osVars, histVars, drvVars,
            tmpVars, dockVars, portVars, memVars>>
\* what a probe of a port leaves alone
notPort == <<domain, platform, tunables, cpuVars, netVars, pc, lastResult, osVars, histVars, drvVars,
             tmpVars, gpuVars, dockVars, memVars>>
\* what a call of getMemoryInfo leaves alone
notMem == <<domain, platform, tunables, cpuVars, netVars, pc, lastResult, osVars, histVars, drvVars,
            tmpVars, gpuVars, dockVars, portVars>>
\* the calls of the one-shot normalizers, which the samplers leave alone
callVars == <<drvVars, tmpVars, gpuVars, dockVars, portVars, memVars>>
vars == <<domain, platform, tunables, cpuVars, netVars, pc, lastResult, osVars, histVars, callVars>>

(***************************************************************************)
(* JavaScript numbers that are quotients of integers.                      *)
(***************************************************************************)
NaN == [k |-> "NaN"]
PosInf == [k |-> "Infinity"]
NegInf == [k |-> "-Infinity"]

Abs(x) == IF x < 0 THEN -x ELSE x

RECURSIVE Gcd(_, _)
Gcd(a, b) == IF b = 0 THEN a ELSE Gcd(b, a % b)

\* the number n/d, d # 0, in lowest terms
Frac(n, d) ==
    LET g == Gcd(Abs(n), Abs(d))
        s == IF d < 0 THEN -1 ELSE 1
    IN  [k |-> "num", n |-> (s * n) \div g, d |-> (s * d) \div g]

Zero == Frac(0, 1)

\* a / b of two integers, as IEEE 754 defines it
JsDiv(a, b) ==
    IF b # 0 THEN Frac(a, b)
    ELSE IF a = 0 THEN NaN
    ELSE IF a > 0 THEN PosInf ELSE NegInf

IsFinite(x) == x.k = "num"

Min(a, b) == IF a < b THEN a ELSE b

(***************************************************************************)
(* The operating system's CPU counters (os.cpus()).                        *)
(***************************************************************************)
TimeFields == {"user", "nice", "sys", "irq", "idle"}
NoTicks == [user |-> 0, nice |-> 0, sys |-> 0, irq |-> 0, idle |-> 0]

\* os.cpus(): the cores that are online, each with its tick counters
OsCpusList == SubSeq(osCpus, 1, osOnline)

RECURSIVE SumTicks(_, _)
SumTicks(cores, i) ==
    IF i > Len(cores) THEN 0
    ELSE cores[i].user + cores[i].nice + cores[i].sys + cores[i].irq + cores[i].idle
         + SumTicks(cores, i + 1)

\* one counter of one online core advances (counters never decrease)
OsTick ==
    /\ SumTicks(osCpus, 1) < MaxTicks
    /\ \E i \in 1..osOnline, f \in TimeFields :
          osCpus' = [osCpus EXCEPT ![i][f] = @ + 1]
    /\ UNCHANGED <<osOnline, osNet, now, linkSpeed>>

\* the same, as far as the sampler's races need it: busy or idle time of core 1
OsTickCoarse ==
    /\ SumTicks(osCpus, 1) < SamplerTicks
    /\ \E f \in {"user", "idle"} : osCpus' = [osCpus EXCEPT ![1][f] = @ + 1]
    /\ UNCHANGED <<osOnline, osNet, now, linkSpeed>>

\* a core goes online or offline
OsHotplug ==
    /\ \E n \in 1..MaxCores : n # osOnline /\ osOnline' = n
    /\ UNCHANGED <<osCpus, osNet, now, linkSpeed>>

(***************************************************************************)
(* computeCpuUtilization (src/src/cpu.ts:45-72).                           *)
(***************************************************************************)
\* cpu.ts:58-59
BusyOf(t) == t.user + t.nice + t.sys + t.irq

\* cpu.ts:62-63
TotalOf(t) == BusyOf(t) + t.idle

\* cpu.ts:48-50: pad with 0 or cut the per-core array to `min` entries
ResizeCores(cores, min) ==
    IF Len(cores) < min THEN cores \o [i \in 1..(min - Len(cores)) |-> Zero]
    ELSE IF Len(cores) > min THEN SubSeq(cores, 1, min)
    ELSE cores

\* cpu.ts:66
CoreRate(usage, total) == JsDiv(usage, total)

\* the overall rate without the guard of cpu.ts:70 (a variant C8 must tell apart)
OverallRate_NoGuard(totalUsage, totalTotal) == JsDiv(totalUsage, totalTotal)

\* cpu.ts:70
OverallRate(totalUsage, totalTotal) ==
    IF totalTotal # 0 THEN JsDiv(totalUsage, totalTotal) ELSE Zero

\* cpu.ts:54-69: the loop over the cores both snapshots have
RECURSIVE CoreLoop(_, _, _, _, _)
CoreLoop(i, min, prev, next, acc) ==
    IF i > min THEN acc
    ELSE LET usage == BusyOf(next[i]) - BusyOf(prev[i])
             total == TotalOf(next[i]) - TotalOf(prev[i])
         IN  CoreLoop(i + 1, min, prev, next,
                      [cores |-> [acc.cores EXCEPT ![i] = CoreRate(usage, total)],
                       totalUsage |-> acc.totalUsage + usage,
                       totalTotal |-> acc.totalTotal + total])

\* cpu.ts:45-72: the new rate state and the new previous snapshot
computeCpuUtilization(prev, util, cpuCores) ==
    LET min == Min(Len(cpuCores), Len(prev))
        acc == CoreLoop(1, min, prev, cpuCores,
                        [cores |-> ResizeCores(util.cores, min),
                         totalUsage |-> 0, totalTotal |-> 0])
    IN  [util |-> [overall |-> OverallRate(acc.totalUsage, acc.totalTotal),
                   cores |-> acc.cores],
         prev |-> cpuCores]

\* a call of computeCpuUtilization on the module state.  leftStopped: the call
\* follows a STOPPED->RUNNING transition; restarted: a read request was issued
\* since the last stop call.
CpuCompute(leftStopped, restarted) ==
    LET r == computeCpuUtilization(PREV_CPU_CORES, CPU_UTILIZATION, OsCpusList)
    IN  /\ CPU_UTILIZATION' = r.util
        /\ PREV_CPU_CORES' = r.prev
        /\ hSnaps' = IF leftStopped THEN 1 ELSE Min(hSnaps + 1, 2)
        /\ hRatePreStop' = (hPrevPreStop /\ restarted /\ Len(PREV_CPU_CORES) > 0)
        /\ hPrevPreStop' = FALSE

(***************************************************************************)
(* Timers and callers of the runtime.                                      *)
(***************************************************************************)
\* the places of a read request: not called ("idle"), or suspended in the loop
\* iteration it started ("run"), in its sleep ("sleep"), in its second
\* computation ("second"), or in the gathering of the interfaces, after it
\* started the sampler ("gather") or found it RUNNING ("hitgather")
Places == {"idle", "run", "sleep", "second", "gather", "hitgather"}

\* one caller goes from one place to another
Move(from, to) == [pc EXCEPT ![from] = @ - 1, ![to] = @ + 1]

FreeHandles(pending, held) == TimerIds \ (pending \cup {held})

\* the handle setTimeout returns: one no pending timer and no variable holds
FreshHandle(pending, held) ==
    CHOOSE h \in FreeHandles(pending, held) :
        \A g \in FreeHandles(pending, held) : h <= g

\* clearTimeout(handle): a handle that already fired, or null, clears nothing
ClearTimeout(pending, handle) == pending \ {handle}

(***************************************************************************)
(* runCpuComputeInterval, stopCpuUtilizationComputation, getCpuUtilization *)
(* (src/src/cpu.ts:74-121).                                                *)
(***************************************************************************)
\* a loop iteration that leaves the flag as it is (a variant C2 must tell apart)
RunningAtEntry_Unset(running) == running

\* cpu.ts:75 (drive.ts:449): the flag once the loop iteration has been entered
RunningAtEntry(running) == TRUE

\* a read request that starts the sampler whatever the flag (a variant C6 must
\* tell apart)
NeedsStart_Always(running) == TRUE

\* cpu.ts:115 (drive.ts:498): the read request starts the sampler
NeedsStart(running) == ~running

\* a stop call that keeps the handle (a variant C7 must tell apart)
StopTimeout_Keep(handle) == handle

\* cpu.ts:87 (drive.ts:461): the handle after a stop call
StopTimeout(handle) == Null

\* a timer armed with the interval as it is (a variant C18 must tell apart)
TimerDelay_Raw(interval) == interval

\* cpu.ts:78 (drive.ts:452): Math.max(interval, 1)
TimerDelay(interval) == IF interval > 1 THEN interval ELSE 1

\* cpu.ts:77-78: after the awaited computation, arm the next timer if RUNNING
CpuArm ==
    IF CPU_COMPUTE_RUNNING
    THEN /\ FreeHandles(cpuTimers, CPU_COMPUTE_TIMEOUT) # {}
         /\ CPU_COMPUTE_TIMEOUT' = FreshHandle(cpuTimers, CPU_COMPUTE_TIMEOUT)
         /\ cpuTimers' = cpuTimers \cup {FreshHandle(cpuTimers, CPU_COMPUTE_TIMEOUT)}
         /\ cpuDelay' = TimerDelay(CPU_COMPUTE_UTILIZATION_INTERVAL)
    ELSE UNCHANGED <<CPU_COMPUTE_TIMEOUT, cpuTimers, cpuDelay>>

\* getCpuUtilization is called (cpu.ts:114-116, 120; 75-76 when it starts the
\* sampler): up to its first suspension point
CpuRead ==
    /\ domain = "cpu"
    /\ pc["idle"] > 0
    /\ hStopped' = FALSE
    /\ hEverStarted' = TRUE
    /\ IF NeedsStart(CPU_COMPUTE_RUNNING)
       THEN /\ CPU_COMPUTE_RUNNING' = RunningAtEntry(CPU_COMPUTE_RUNNING)
            /\ CpuCompute(~CPU_COMPUTE_RUNNING, TRUE)
            /\ pc' = Move("idle", "run")
            /\ hLast' = "start"
            /\ hStarts' = Min(hStarts + 1, 2)
            /\ UNCHANGED lastResult
       ELSE /\ hLast' = "hitreturn"
            /\ lastResult' = CPU_UTILIZATION
            /\ UNCHANGED <<pc, CPU_COMPUTE_RUNNING, PREV_CPU_CORES, CPU_UTILIZATION,
                           hStarts, hSnaps, hPrevPreStop, hRatePreStop>>
    /\ UNCHANGED <<domain, platform, tunables, callVars, netVars, CPU_COMPUTE_TIMEOUT, cpuTimers, cpuDelay, cpuLoops, osVars>>

\* the loop iteration a read request started resumes (cpu.ts:77-78), and the
\* caller goes to sleep (cpu.ts:117)
CpuRunResume ==
    /\ domain = "cpu"
    /\ pc["run"] > 0
    /\ CpuArm
    /\ pc' = Move("run", "sleep")
    /\ hLast' = "other"
    /\ UNCHANGED <<domain, platform, tunables, callVars, netVars, PREV_CPU_CORES, CPU_UTILIZATION, CPU_COMPUTE_RUNNING,
                   cpuLoops, lastResult, osVars, hSnaps, hStarts, hStopped, hEverStarted,
                   hPrevPreStop, hRatePreStop>>

\* the caller's sleep ends: the second computation (cpu.ts:118)
CpuSleepDone ==
    /\ domain = "cpu"
    /\ pc["sleep"] > 0
    /\ CpuCompute(FALSE, ~hStopped)
    /\ pc' = Move("sleep", "second")
    /\ hLast' = "other"
    /\ UNCHANGED <<domain, platform, tunables, callVars, netVars, CPU_COMPUTE_RUNNING, CPU_COMPUTE_TIMEOUT, cpuTimers, cpuDelay, cpuLoops,
                   lastResult, osVars, hStarts, hStopped, hEverStarted>>

\* the read request that started the sampler resolves (cpu.ts:120)
CpuReturn ==
    /\ domain = "cpu"
    /\ pc["second"] > 0
    /\ pc' = Move("second", "idle")
    /\ lastResult' = CPU_UTILIZATION
    /\ hLast' = "return"
    /\ UNCHANGED <<domain, platform, tunables, callVars, netVars, cpuVars, osVars, hSnaps, hStarts, hStopped, hEverStarted,
                   hPrevPreStop, hRatePreStop>>

\* a pending timer fires: runCpuComputeInterval up to its await (cpu.ts:75-76)
CpuTimerFire(h) ==
    /\ domain = "cpu"
    /\ h \in cpuTimers
    /\ cpuLoops < MaxLoops
    /\ cpuTimers' = cpuTimers \ {h}
    /\ UNCHANGED cpuDelay
    /\ cpuLoops' = cpuLoops + 1
    /\ CPU_COMPUTE_RUNNING' = RunningAtEntry(CPU_COMPUTE_RUNNING)
    /\ CpuCompute(~CPU_COMPUTE_RUNNING, ~hStopped)
    /\ hLast' = "other"
    /\ UNCHANGED <<domain, platform, tunables, callVars, netVars, CPU_COMPUTE_TIMEOUT, pc, lastResult, osVars, hStarts, hStopped,
                   hEverStarted>>

\* a timer-started loop iteration resumes (cpu.ts:77-78)
CpuLoopResume ==
    /\ domain = "cpu"
    /\ cpuLoops > 0
    /\ CpuArm
    /\ cpuLoops' = cpuLoops - 1
    /\ hLast' = "other"
    /\ UNCHANGED <<domain, platform, tunables, callVars, netVars, PREV_CPU_CORES, CPU_UTILIZATION, CPU_COMPUTE_RUNNING,
                   pc, lastResult, osVars, hSnaps, hStarts, hStopped, hEverStarted,
                   hPrevPreStop, hRatePreStop>>

\* stopCpuUtilizationComputation (cpu.ts:85-89)
CpuStop ==
    /\ domain = "cpu"
    /\ cpuTimers' = (IF CPU_COMPUTE_TIMEOUT # Null
                     THEN ClearTimeout(cpuTimers, CPU_COMPUTE_TIMEOUT) ELSE cpuTimers)
    /\ UNCHANGED cpuDelay
    /\ CPU_COMPUTE_TIMEOUT' = StopTimeout(CPU_COMPUTE_TIMEOUT)
    /\ CPU_COMPUTE_RUNNING' = FALSE
    /\ hStopped' = TRUE
    /\ hLast' = (IF hLast \in {"stop", "stopagain"} THEN "stopagain" ELSE "stop")
    /\ hStarts' = 0
    /\ hPrevPreStop' = (hPrevPreStop \/ Len(PREV_CPU_CORES) > 0)
    /\ UNCHANGED <<domain, platform, tunables, callVars, netVars, PREV_CPU_CORES, CPU_UTILIZATION, cpuLoops, pc, lastResult,
                   osVars, hSnaps, hEverStarted, hRatePreStop>>

(***************************************************************************)
(* The operating system's network counters and clock.                      *)
(***************************************************************************)
\* the adapters of the machine
Nics == {"Ethernet"}

EmptyMap == <<>>

\* a millisecond passes, in which one adapter receives a byte
NetTickCoarse ==
    /\ now - 1 < SamplerTicks
    /\ now' = now + 1
    /\ \E n \in Nics : osNet' = [osNet EXCEPT ![n].rx = @ + 1]
    /\ UNCHANGED <<osCpus, osOnline, linkSpeed>>

(***************************************************************************)
(* computeNetworkUtilization (src/src/drive.ts:380-446).                   *)
(***************************************************************************)
\* a value a line of tool output does not have
Undefined == "<undefined>"

\* a field of a result object that is not set
NotSet == [k |-> "undefined"]

\* parseInt(value, 10) || 0 of a field of tool output
ParseIntOr0(value) == IF value \in Nat THEN value ELSE 0

\* the lines of `Get-NetAdapterStatistics | Select-Object Name, ReceivedBytes,
\* SentBytes | Format-List`, each split at ' : ' and trimmed (drive.ts:413,
\* 418); a failed command yields '' (drive.ts:412), which is one empty line
RECURSIVE NetStatsLines(_)
NetStatsLines(S) ==
    IF S = {} THEN <<>>
    ELSE LET n == CHOOSE x \in S : TRUE
         IN  << <<"Name", n>>, <<"ReceivedBytes", osNet[n].rx>>,
                <<"SentBytes", osNet[n].tx>>, <<"">> >> \o NetStatsLines(S \ {n})

NetStatsOutput(ok) == IF ok THEN <<(<<"">>)>> \o NetStatsLines(Nics) ELSE <<(<<"">>)>>

\* (bytes - prev) / (durationMs / 1000)
ByteRate(bytes, prev, durationMs) == JsDiv((bytes - prev) * 1000, durationMs)

\* drive.ts:417-441: the loop over the lines of the win32 branch
RECURSIVE NetParseLines(_, _, _, _, _, _)
NetParseLines(lines, i, currNic, stats, bps, durationMs) ==
    IF i > Len(lines) THEN [stats |-> stats, bps |-> bps]
    ELSE LET key == lines[i][1]
             value == IF Len(lines[i]) > 1 THEN lines[i][2] ELSE Undefined
             nic == IF key = "Name" THEN value ELSE currNic
         IN  IF nic \in {Undefined, ""}
             THEN NetParseLines(lines, i + 1, nic, stats, bps, durationMs)
             ELSE LET stats1 == IF nic \in DOMAIN stats THEN stats
                                ELSE stats @@ (nic :> [receivedBytes |-> 0,
                                                       transmittedBytes |-> 0])
                      bps1 == IF nic \in DOMAIN bps THEN bps
                              ELSE bps @@ (nic :> [receive |-> Zero, transmit |-> Zero])
                  IN  IF key = "ReceivedBytes"
                      THEN NetParseLines(lines, i + 1, nic,
                               [stats1 EXCEPT ![nic].receivedBytes = ParseIntOr0(value)],
                               [bps1 EXCEPT ![nic].receive =
                                   ByteRate(ParseIntOr0(value),
                                            stats1[nic].receivedBytes, durationMs)],
                               durationMs)
                      ELSE IF key = "SentBytes"
                      THEN NetParseLines(lines, i + 1, nic,
                               [stats1 EXCEPT ![nic].transmittedBytes = ParseIntOr0(value)],
                               [bps1 EXCEPT ![nic].transmit =
                                   ByteRate(ParseIntOr0(value),
                                            stats1[nic].transmittedBytes, durationMs)],
                               durationMs)
                      ELSE NetParseLines(lines, i + 1, nic, stats1, bps1, durationMs)

\* drive.ts:383-405: the linux branch reads the counters of the interfaces that
\* are keys of NET_LAST_STATS.  No statement of the branch adds a key, so the
\* batch is the batch of the keys the module state has.
RECURSIVE NetLinuxReads(_, _, _, _)
NetLinuxReads(keys, stats, bps, durationMs) ==
    IF keys = {} THEN [stats |-> stats, bps |-> bps]
    ELSE LET n == CHOOSE x \in keys : TRUE
         IN  NetLinuxReads(keys \ {n},
                 [stats EXCEPT ![n] = [receivedBytes |-> osNet[n].rx,
                                       transmittedBytes |-> osNet[n].tx]],
                 [bps EXCEPT ![n] =
                     [receive |-> ByteRate(osNet[n].rx, stats[n].receivedBytes, durationMs),
                      transmit |-> ByteRate(osNet[n].tx, stats[n].transmittedBytes,
                                            durationMs)]],
                 durationMs)

\* the part of computeNetworkUtilization that runs when it is called: on a
\* platform with no branch the function has no await and runs to its end
\* (drive.ts:381, 445)
NetComputeCall ==
    IF platform \in {"linux", "win32"}
    THEN UNCHANGED <<NET_LAST_COMPUTE, NET_LAST_STATS, NET_BYTES_PER_SECOND,
                     hSnaps, hPrevPreStop, hRatePreStop>>
    ELSE /\ NET_LAST_COMPUTE' = now
         /\ UNCHANGED <<NET_LAST_STATS, NET_BYTES_PER_SECOND>>
         /\ hSnaps' = Min(hSnaps + 1, 2)
         /\ hPrevPreStop' = FALSE
         /\ hRatePreStop' = FALSE

\* the same, called right after a STOPPED->RUNNING transition
NetComputeCallFresh ==
    IF platform \in {"linux", "win32"}
    THEN /\ hSnaps' = 0
         /\ UNCHANGED <<NET_LAST_COMPUTE, NET_LAST_STATS, NET_BYTES_PER_SECOND,
                        hPrevPreStop, hRatePreStop>>
    ELSE /\ NET_LAST_COMPUTE' = now
         /\ UNCHANGED <<NET_LAST_STATS, NET_BYTES_PER_SECOND>>
         /\ hSnaps' = 1
         /\ hPrevPreStop' = FALSE
         /\ hRatePreStop' = FALSE

\* the part that runs when the awaited reads or command end (drive.ts:383-445);
\* ok: the command of the win32 branch succeeded; restarted: a read request was
\* issued since the last stop call
NetComputeDone(ok, restarted) ==
    LET durationMs == now - NET_LAST_COMPUTE
        r == IF platform = "win32"
             THEN NetParseLines(NetStatsOutput(ok), 1, Undefined, NET_LAST_STATS,
                                NET_BYTES_PER_SECOND, durationMs)
             ELSE NetLinuxReads(DOMAIN NET_LAST_STATS, NET_LAST_STATS,
                                NET_BYTES_PER_SECOND, durationMs)
        replaced == platform = "win32" /\ ok
    IN  IF platform \in {"linux", "win32"}
        THEN /\ NET_LAST_STATS' = r.stats
             /\ NET_BYTES_PER_SECOND' = r.bps
             /\ NET_LAST_COMPUTE' = now
             /\ hSnaps' = Min(hSnaps + 1, 2)
             /\ hRatePreStop' = IF replaced
                                THEN hPrevPreStop /\ restarted /\ NET_LAST_STATS # EmptyMap
                                ELSE hRatePreStop
             /\ hPrevPreStop' = (hPrevPreStop /\ ~replaced /\ platform = "win32")
        ELSE UNCHANGED <<NET_LAST_COMPUTE, NET_LAST_STATS, NET_BYTES_PER_SECOND,
                         hSnaps, hPrevPreStop, hRatePreStop>>

\* one computation ends and the caller calls the next one (drive.ts:499-500)
NetDoneThenCall(ok, restarted) ==
    IF platform \in {"linux", "win32"} THEN NetComputeDone(ok, restarted)
    ELSE NetComputeCall

(***************************************************************************)
(* runNetComputeInterval, stopNetworkUtilizationComputation and            *)
(* getNetworkInterfaces (src/src/drive.ts:448-463, 497-627).               *)
(***************************************************************************)
\* drive.ts:451-452: after the awaited computation, arm the next timer if RUNNING
NetArm ==
    IF NET_COMPUTE_RUNNING
    THEN /\ FreeHandles(netTimers, NET_COMPUTE_TIMEOUT) # {}
         /\ NET_COMPUTE_TIMEOUT' = FreshHandle(netTimers, NET_COMPUTE_TIMEOUT)
         /\ netTimers' = netTimers \cup {FreshHandle(netTimers, NET_COMPUTE_TIMEOUT)}
         /\ netDelay' = TimerDelay(NET_COMPUTE_UTILIZATION_INTERVAL)
    ELSE UNCHANGED <<NET_COMPUTE_TIMEOUT, netTimers, netDelay>>

\* what the platform's source can report as the link speed of an adapter: the
\* LinkSpeed line of Get-NetAdapter (none when the adapter has no such line),
\* the content of /sys/class/net/<name>/speed (none when the read fails)
LinkSpeeds(plat) ==
    CASE plat = "win32" -> {"1 Gbps", "0 bps", Undefined}
      [] plat = "linux" -> {"1000", "-1", Undefined}
      [] OTHER -> {Undefined}

\* the link speed of an adapter that is connected
DefaultLinkSpeed(plat) ==
    CASE plat = "win32" -> "1 Gbps"
      [] plat = "linux" -> "1000"
      [] OTHER -> Undefined

\* drive.ts:548 parseInt(data.trim(), 10), and drive.ts:599
\* parseFloat(value.replace(/[^0-9.]/g, '')), on the texts of the model
SpeedNumber(text) ==
    CASE text = "1 Gbps" -> 1
      [] text = "0 bps" -> 0
      [] text = "1000" -> 1000
      [] text = "-1" -> -1

\* x / bytes of a number x that may be NaN or infinite and an integer bytes >= 0
JsDivNum(x, bytes) ==
    IF x.k # "num" THEN x
    ELSE IF bytes # 0 THEN Frac(x.n, x.d * bytes)
    ELSE IF x.n = 0 THEN NaN
    ELSE IF x.n > 0 THEN PosInf ELSE NegInf

\* drive.ts:505-522: an interface as os.networkInterfaces() gives it, with
\* neither speed nor utilization
BareNic == [speed |-> NotSet, utilization |-> NotSet]

\* drive.ts:547-557: the speed file of the linux branch
LinuxNic(text) ==
    IF text # Undefined /\ SpeedNumber(text) > 0
    THEN [speed |-> [bits |-> SpeedNumber(text) * 1000000,
                     bytes |-> (SpeedNumber(text) * 1000000) \div 8],
          utilization |-> NotSet]
    ELSE BareNic

\* drive.ts:598-614: the LinkSpeed line of the win32 branch
WinNic(n, text) ==
    IF text # Undefined
    THEN LET bits == SpeedNumber(text) * 1000000000
             bytes == bits \div 8
         IN  [speed |-> [bits |-> bits, bytes |-> bytes],
              utilization |->
                  IF n \in DOMAIN NET_BYTES_PER_SECOND
                  THEN [receive |-> JsDivNum(NET_BYTES_PER_SECOND[n].receive, bytes),
                        transmit |-> JsDivNum(NET_BYTES_PER_SECOND[n].transmit, bytes)]
                  ELSE NotSet]
    ELSE BareNic

\* drive.ts:503-626: the speed and the utilization of the returned interfaces;
\* ok: the reads of the linux branch, or Get-NetAdapter of the win32 branch,
\* succeeded
NetInterfaces(ok) ==
    [n \in Nics |->
        IF platform = "win32" /\ ok THEN WinNic(n, linkSpeed)
        ELSE IF platform = "linux" /\ ok THEN LinuxNic(linkSpeed)
        ELSE BareNic]

\* the platform's branch of drive.ts:526-625 awaits a batch of reads or a command
GatherSuspends == platform \in {"linux", "win32"}

\* getNetworkInterfaces is called (drive.ts:497-499, 503-526; 449-450 when it
\* starts the sampler): up to its first suspension point
NetRead ==
    /\ domain = "net"
    /\ pc["idle"] > 0
    /\ hStopped' = FALSE
    /\ hEverStarted' = TRUE
    /\ IF NeedsStart(NET_COMPUTE_RUNNING)
       THEN /\ NET_COMPUTE_RUNNING' = RunningAtEntry(NET_COMPUTE_RUNNING)
            /\ IF NET_COMPUTE_RUNNING THEN NetComputeCall ELSE NetComputeCallFresh
            /\ pc' = Move("idle", "run")
            /\ hLast' = "start"
            /\ hStarts' = Min(hStarts + 1, 2)
            /\ UNCHANGED lastResult
       ELSE /\ IF GatherSuspends
               THEN /\ pc' = Move("idle", "hitgather")
                    /\ hLast' = "hit"
                    /\ UNCHANGED lastResult
               ELSE /\ lastResult' = NetInterfaces(TRUE)
                    /\ hLast' = "hitreturn"
                    /\ UNCHANGED pc
            /\ UNCHANGED <<NET_COMPUTE_RUNNING, NET_LAST_COMPUTE, NET_LAST_STATS,
                           NET_BYTES_PER_SECOND, hStarts, hSnaps, hPrevPreStop,
                           hRatePreStop>>
    /\ UNCHANGED <<domain, platform, tunables, callVars, cpuVars, NET_COMPUTE_TIMEOUT, netTimers, netDelay, netLoops,
                   osVars>>

\* the first computation ends, the loop iteration the read request started
\* resumes (drive.ts:451-452), and the caller's second computation is called
\* (drive.ts:500)
NetRunResume ==
    /\ domain = "net"
    /\ pc["run"] > 0
    /\ \E ok \in BOOLEAN :
          /\ platform # "win32" => ok
          /\ NetDoneThenCall(ok, ~hStopped)
    /\ NetArm
    /\ pc' = Move("run", "second")
    /\ hLast' = "other"
    /\ UNCHANGED <<domain, platform, tunables, callVars, cpuVars, NET_COMPUTE_RUNNING, netLoops, lastResult,
                   osVars, hStarts, hStopped, hEverStarted>>

\* the second computation ends and the caller gathers the interfaces
\* (drive.ts:503-526), which suspends it again or, on a platform with no
\* branch, resolves the read request (drive.ts:626)
NetSecondDone ==
    /\ domain = "net"
    /\ pc["second"] > 0
    /\ \E ok \in BOOLEAN :
          /\ platform # "win32" => ok
          /\ NetComputeDone(ok, ~hStopped)
    /\ IF GatherSuspends
       THEN /\ pc' = Move("second", "gather")
            /\ hLast' = "other"
            /\ UNCHANGED lastResult
       ELSE /\ pc' = Move("second", "idle")
            /\ hLast' = "return"
            /\ lastResult' = NetInterfaces(TRUE)
    /\ UNCHANGED <<domain, platform, tunables, callVars, cpuVars, NET_COMPUTE_RUNNING, NET_COMPUTE_TIMEOUT,
                   netTimers, netDelay, netLoops, osVars, hStarts, hStopped, hEverStarted>>

\* the reads or the command of the gathering end: the read request resolves
\* (drive.ts:528-559, 567-622, 626)
NetGatherDone ==
    /\ domain = "net"
    /\ \E from \in {"gather", "hitgather"} :
          /\ pc[from] > 0
          /\ pc' = Move(from, "idle")
    /\ \E ok \in BOOLEAN :
          /\ platform # "win32" => ok
          /\ lastResult' = NetInterfaces(ok)
    /\ hLast' = "return"
    /\ UNCHANGED <<domain, platform, tunables, callVars, cpuVars, netVars, osVars, hSnaps, hStarts, hStopped,
                   hEverStarted, hPrevPreStop, hRatePreStop>>

\* a pending timer fires: runNetComputeInterval up to its await (drive.ts:449-450)
NetTimerFire(h) ==
    /\ domain = "net"
    /\ h \in netTimers
    /\ netLoops < MaxLoops
    /\ netTimers' = netTimers \ {h}
    /\ UNCHANGED netDelay
    /\ netLoops' = netLoops + 1
    /\ NET_COMPUTE_RUNNING' = RunningAtEntry(NET_COMPUTE_RUNNING)
    /\ IF NET_COMPUTE_RUNNING THEN NetComputeCall ELSE NetComputeCallFresh
    /\ hLast' = "other"
    /\ UNCHANGED <<domain, platform, tunables, callVars, cpuVars, NET_COMPUTE_TIMEOUT, pc, lastResult, osVars,
                   hStarts, hStopped, hEverStarted>>

\* the computation of a timer-started loop iteration ends and the iteration
\* resumes (drive.ts:451-452)
NetLoopResume ==
    /\ domain = "net"
    /\ netLoops > 0
    /\ \E ok \in BOOLEAN :
          /\ platform # "win32" => ok
          /\ NetComputeDone(ok, ~hStopped)
    /\ NetArm
    /\ netLoops' = netLoops - 1
    /\ hLast' = "other"
    /\ UNCHANGED <<domain, platform, tunables, callVars, cpuVars, NET_COMPUTE_RUNNING, pc, lastResult, osVars,
                   hStarts, hStopped, hEverStarted>>

\* stopNetworkUtilizationComputation (drive.ts:459-463)
NetStop ==
    /\ domain = "net"
    /\ netTimers' = (IF NET_COMPUTE_TIMEOUT # Null
                     THEN ClearTimeout(netTimers, NET_COMPUTE_TIMEOUT) ELSE netTimers)
    /\ UNCHANGED netDelay
    /\ NET_COMPUTE_TIMEOUT' = StopTimeout(NET_COMPUTE_TIMEOUT)
    /\ NET_COMPUTE_RUNNING' = FALSE
    /\ hStopped' = TRUE
    /\ hLast' = (IF hLast \in {"stop", "stopagain"} THEN "stopagain" ELSE "stop")
    /\ hStarts' = 0
    /\ hPrevPreStop' = (hPrevPreStop \/ NET_LAST_STATS # EmptyMap)
    /\ UNCHANGED <<domain, platform, tunables, callVars, cpuVars, NET_LAST_COMPUTE, NET_LAST_STATS,
                   NET_BYTES_PER_SECOND, netLoops, pc, lastResult, osVars, hSnaps,
                   hEverStarted, hRatePreStop>>

(***************************************************************************)
(* The sampler specification: read requests, stop calls, timer firings and *)
(* completions in any order, for one of the two samplers.                  *)
(***************************************************************************)
InitHistory ==
    /\ hLast = "other"
    /\ hSnaps = 0
    /\ hStarts = 0
    /\ hStopped = FALSE
    /\ hEverStarted = FALSE
    /\ hPrevPreStop = FALSE
    /\ hRatePreStop = FALSE

\* cpu.ts:37-43
\* cpu.ts:33, drive.ts:372: the intervals as the module sets them
DefaultInterval == 1000

InitTunables ==
    /\ CPU_COMPUTE_UTILIZATION_INTERVAL = DefaultInterval
    /\ NET_COMPUTE_UTILIZATION_INTERVAL = DefaultInterval

InitCpu ==
    /\ PREV_CPU_CORES = <<>>
    /\ CPU_UTILIZATION = [overall |-> Zero, cores |-> <<>>]
    /\ CPU_COMPUTE_RUNNING = FALSE
    /\ CPU_COMPUTE_TIMEOUT = Null
    /\ cpuTimers = {}
    /\ cpuDelay = 0
    /\ cpuLoops = 0

\* drive.ts:374-378
InitNet ==
    /\ NET_LAST_COMPUTE = 0
    /\ NET_LAST_STATS = EmptyMap
    /\ NET_BYTES_PER_SECOND = EmptyMap
    /\ NET_COMPUTE_RUNNING = FALSE
    /\ NET_COMPUTE_TIMEOUT = Null
    /\ netTimers = {}
    /\ netDelay = 0
    /\ netLoops = 0

InitCallers ==
    /\ pc = [p \in Places |-> IF p = "idle" THEN MaxReaders ELSE 0]
    /\ lastResult = [k |-> "none"]

InitOs ==
    /\ osCpus = [i \in 1..MaxCores |-> NoTicks]
    /\ osNet = [n \in Nics |-> [rx |-> 0, tx |-> 0]]
    /\ now = 1
    /\ linkSpeed = DefaultLinkSpeed(platform)

\* no call of getDrives
InitDrives ==
    /\ drvPc = "idle"
    /\ includeVirtual = FALSE
    /\ drives = <<>>

\* an array field of a result object that is not set
NoArray == [present |-> FALSE, items |-> <<>>]

\* thermal zones and hwmon devices the machine can have
Zones == {"thermal_zone0", "thermal_zone1"}
Hwmons == {"hwmon0"}

\* no call of getTemperatures; drive.ts:140 is the empty object
NoTemperatures ==
    [battery |-> NotSet, cpu |-> NotSet, cpuCores |-> NoArray, cpuSockets |-> NoArray,
     gpu |-> NotSet, gpus |-> NoArray, gpuMemory |-> NotSet, gpuMemories |-> NoArray,
     motherboard |-> NotSet, wifi |-> NotSet]

\* no reading of a sensor was classified
NoReads == [f \in Zones \cup Hwmons |-> [name |-> "", temp |-> NotSet]]

InitTemps ==
    /\ tmpPc = "idle"
    /\ temperatures = NoTemperatures
    /\ zoneTask = [z \in Zones |-> [stage |-> "none", temp |-> NotSet]]
    /\ hwmonTask = [d \in Hwmons |-> "none"]
    /\ sensorReads = NoReads

\* no call of getGPUs; part_006:59 is the empty list
InitGpus ==
    /\ gpuPc = "idle"
    /\ gpus = <<>>
    /\ gpuLines = <<>>
    /\ gpuBase = <<>>
    /\ gpuRows = <<>>

\* the bound of the number of probes of ports that are called
MaxProbes == 2
ProbeIds == 1..MaxProbes

\* no call of getDockerContainers
InitDocker ==
    /\ dockPc = "idle"
    /\ containers = <<>>
    /\ dockLines = <<>>

\* no probe of a port, and no other server
InitPorts ==
    /\ listeners = {}
    /\ privileged = FALSE
    /\ probePc = [p \in ProbeIds |-> "idle"]
    /\ probeCode = [p \in ProbeIds |-> "none"]
    /\ bound = {}
    /\ probePort = [p \in ProbeIds |-> 0]
    /\ probeResult = [p \in ProbeIds |-> FALSE]
    /\ probeHeld = [p \in ProbeIds |-> FALSE]

\* the Memory object before the tool is run (part_004:79-86), without the
\* figures of os.totalmem() and os.freemem()
NoMemoryInfo == [devices |-> NoArray, bandwidth |-> NotSet]

\* no call of getMemoryInfo
InitMemory ==
    /\ memPc = "idle"
    /\ memoryInfo = NoMemoryInfo
    /\ interleavePositions = {}
    /\ memLines = <<>>

\* no call of a one-shot normalizer
InitCalls == InitDrives /\ InitTemps /\ InitGpus /\ InitDocker /\ InitPorts /\ InitMemory

Init ==
    /\ \/ domain = "cpu" /\ platform = "linux"
       \/ domain = "net" /\ platform \in {"linux", "win32", "darwin"}
    /\ InitTunables
    /\ InitCpu
    /\ InitNet
    /\ InitCallers
    /\ InitOs
    /\ osOnline = 1
    /\ InitHistory
    /\ InitCalls

CpuNext ==
    \/ CpuRead
    \/ CpuRunResume
    \/ CpuSleepDone
    \/ CpuReturn
    \/ \E h \in TimerIds : CpuTimerFire(h)
    \/ CpuLoopResume
    \/ CpuStop

NetNext ==
    \/ NetRead
    \/ NetRunResume
    \/ NetSecondDone
    \/ NetGatherDone
    \/ \E h \in TimerIds : NetTimerFire(h)
    \/ NetLoopResume
    \/ NetStop

EnvNext ==
    /\ \/ domain = "cpu" /\ OsTickCoarse
       \/ domain = "net" /\ NetTickCoarse
    /\ UNCHANGED <<domain, platform, tunables, cpuVars, netVars, pc, lastResult, histVars, callVars>>

Next == CpuNext \/ NetNext \/ EnvNext

Spec == Init /\ [][Next]_vars

(***************************************************************************)
(* The tick specification: computeCpuUtilization applied again and again   *)
(* to the counters of an operating system whose cores tick and go on- and  *)
(* offline.                                                                *)
(***************************************************************************)
\* computeCpuUtilization is called (by the loop or by a read request)
CpuTick ==
    /\ CpuCompute(FALSE, ~hStopped)
    /\ hLast' = "other"
    /\ UNCHANGED <<domain, platform, tunables, netVars, callVars, CPU_COMPUTE_RUNNING,
                   CPU_COMPUTE_TIMEOUT, cpuTimers, cpuDelay, cpuLoops, pc, lastResult, osVars,
                   hStarts, hStopped, hEverStarted>>

InitTicks ==
    /\ domain = "cpu"
    /\ platform = "linux"
    /\ InitTunables
    /\ InitCpu
    /\ InitNet
    /\ InitCallers
    /\ InitOs
    /\ osOnline \in 1..MaxCores
    /\ InitHistory
    /\ InitCalls

OsNext ==
    /\ OsTick \/ OsHotplug
    /\ UNCHANGED <<domain, platform, tunables, cpuVars, netVars, pc, lastResult, histVars, callVars>>

NextTicks == CpuTick \/ OsNext

SpecTicks == InitTicks /\ [][NextTicks]_vars

(***************************************************************************)
(* getDrives (src/src/drive.ts:38-90) and execCommand (drive.ts:637-655).  *)
(***************************************************************************)
\* drive.ts:3-7
VIRTUAL_DRIVE_TYPES == {"devtmpfs", "tmpfs", "overlay"}

\* String.prototype.toLowerCase on the filesystem names of the model
ToLowerCase(str) ==
    CASE str = "NTFS" -> "ntfs"
      [] str = "EXT4" -> "ext4"
      [] str = "Core 0" -> "core 0"
      [] str = "Package id 0" -> "package id 0"
      [] str = "OK" -> "ok"
      [] str = "Yes" -> "yes"
      [] str = "No" -> "no"
      [] str = "Enabled" -> "enabled"
      [] str = "Disabled" -> "disabled"
      [] OTHER -> str

\* a row of `df -PT --block-size=1`, split at white space (drive.ts:47-49):
\* filesystem, type, size, used, available, capacity, mount point
DfRows ==
    { <<"/dev/sda1", "ext4", 1000, 600, 400, "60%", "/">>,
      <<"tmpfs", "tmpfs", 500, 0, 500, "0%", "/run">>,
      <<"none", "EXT4", 0, 0, 0, "-", "/mnt">>,
      <<"df:", "failed">>,
      <<>> }

DfHeader == <<"Filesystem", "Type", "1-blocks", "Used", "Available", "Capacity", "Mounted">>

\* a record of `Get-CimInstance Win32_LogicalDisk | ... | ConvertTo-Json`
DiskObjects ==
    { [Caption |-> "C:", VolumeName |-> "System", Size |-> 1000, FreeSpace |-> 400,
       FileSystem |-> "NTFS"],
      [Caption |-> "D:", VolumeName |-> "", Size |-> 0, FreeSpace |-> 0,
       FileSystem |-> ""] }

\* the sequences over S of at most n elements
RECURSIVE SeqsUpTo(_, _)
SeqsUpTo(S, n) ==
    IF n = 0 THEN {<<>>}
    ELSE SeqsUpTo(S, n - 1) \cup
         {Append(q, x) : q \in {t \in SeqsUpTo(S, n - 1) : Len(t) = n - 1}, x \in S}

\* what the listing command can print when it exits with code 0: on linux and
\* darwin the header and the rows; on win32 the JSON text of an array of
\* records, or of one record when the machine has one disk (value then holds
\* that record alone)
CommandOutputs(plat) ==
    IF plat = "win32"
    THEN {[json |-> "array", value |-> q] : q \in SeqsUpTo(DiskObjects, MaxDriveRows)}
         \cup {[json |-> "object", value |-> <<o>>] : o \in DiskObjects}
    ELSE {[lines |-> <<DfHeader>> \o q] : q \in SeqsUpTo(DfRows, MaxDriveRows)}

\* the empty string, as the lines output.split('\n') makes of it (one empty
\* line) and as the text JSON.parse is given
EmptyOutput(plat) ==
    IF plat = "win32" THEN [json |-> "empty", value |-> <<>>] ELSE [lines |-> << <<>> >>]

\* drive.ts:637-655: execCommand settles with the output, or rejects when the
\* exit code is not 0
ExecResults(plat) ==
    {[ok |-> TRUE, output |-> o] : o \in CommandOutputs(plat)} \cup {[ok |-> FALSE]}

\* drive.ts:43, 71: .catch(() => '')
CatchEmpty(plat, res) == IF res.ok THEN res.output ELSE EmptyOutput(plat)

\* the quotient without the guard of drive.ts:61, 83 (a variant C13 must tell
\* apart)
DriveUtilization_NoGuard(used, total) == JsDiv(used, total)

\* drive.ts:61, 83
DriveUtilization(used, total) == IF total # 0 THEN JsDiv(used, total) ELSE Zero

\* drive.ts:45-64: the loop over the lines after the header
RECURSIVE DfLoop(_, _, _, _)
DfLoop(lines, i, inclVirtual, acc) ==
    IF i > Len(lines) THEN acc
    ELSE LET parts == lines[i]
         IN  IF Len(parts) = 0 \/ Len(parts) < 5
             THEN DfLoop(lines, i + 1, inclVirtual, acc)
             ELSE LET type == ToLowerCase(parts[2])
                      used == ParseIntOr0(parts[4])
                      total == ParseIntOr0(parts[3])
                  IN  IF ~inclVirtual /\ type \in VIRTUAL_DRIVE_TYPES
                      THEN DfLoop(lines, i + 1, inclVirtual, acc)
                      ELSE DfLoop(lines, i + 1, inclVirtual,
                               Append(acc,
                                   [filesystem |-> parts[1],
                                    type |-> type,
                                    total |-> total,
                                    used |-> used,
                                    free |-> ParseIntOr0(parts[5]),
                                    utilization |-> DriveUtilization(used, total),
                                    mount |-> IF Len(parts) >= 7 /\ parts[7] # ""
                                              THEN parts[7] ELSE parts[1]]))

\* drive.ts:73-85: one record of the win32 branch
WinDrive(drive) ==
    LET total == ParseIntOr0(drive.Size)
        free == ParseIntOr0(drive.FreeSpace)
    IN  [filesystem |-> drive.Caption,
         mount |-> IF drive.VolumeName # "" THEN drive.VolumeName ELSE drive.Caption,
         type |-> ToLowerCase(IF drive.FileSystem # "" THEN drive.FileSystem
                              ELSE "unknown"),
         total |-> total,
         free |-> free,
         used |-> total - free,
         utilization |-> DriveUtilization(total - free, total)]

\* drive.ts:39-89 after the command: the settled promise of getDrives.
\* JSON.parse throws on the empty string, and for...of throws on a record that
\* is not an array (drive.ts:72-73); nothing catches either.
ParseDrives(plat, output, inclVirtual) ==
    IF plat = "win32"
    THEN IF output.json = "array"
         THEN [state |-> "resolved",
               drives |-> [i \in 1..Len(output.value) |-> WinDrive(output.value[i])]]
         ELSE [state |-> "rejected", drives |-> <<>>]
    ELSE [state |-> "resolved", drives |-> DfLoop(output.lines, 2, inclVirtual, <<>>)]

\* getDrives is called (drive.ts:38-43, 68-71): up to the awaited command; on a
\* platform with no branch it resolves at once with the empty list (drive.ts:89)
DrvCall ==
    /\ drvPc # "exec"
    /\ \E flag \in BOOLEAN : includeVirtual' = flag
    /\ drives' = <<>>
    /\ drvPc' = IF platform \in {"linux", "darwin", "win32"} THEN "exec" ELSE "resolved"
    /\ UNCHANGED <<domain, platform, tunables, cpuVars, netVars, pc, lastResult, osVars, histVars,
                   tmpVars, gpuVars, dockVars, portVars, memVars>>

\* the command ends: the rest of getDrives (drive.ts:43-89)
DrvExecDone ==
    /\ drvPc = "exec"
    /\ \E res \in ExecResults(platform) :
          LET settled == ParseDrives(platform, CatchEmpty(platform, res), includeVirtual)
          IN  /\ drvPc' = settled.state
              /\ drives' = settled.drives
              /\ hLast' = IF res.ok THEN "other" ELSE "failed"
    /\ UNCHANGED <<domain, platform, tunables, cpuVars, netVars, pc, lastResult, osVars, tmpVars,
                   gpuVars, dockVars, portVars, memVars, includeVirtual, hSnaps, hStarts, hStopped, hEverStarted, hPrevPreStop,
                   hRatePreStop>>

InitDrv ==
    /\ domain = "drive"
    /\ platform \in {"linux", "darwin", "win32", "freebsd"}
    /\ InitTunables
    /\ InitCpu
    /\ InitNet
    /\ InitCallers
    /\ InitOs
    /\ osOnline = 1
    /\ InitHistory
    /\ InitCalls

NextDrv == DrvCall \/ DrvExecDone

SpecDrives == InitDrv /\ [][NextDrv]_vars

(***************************************************************************)
(* Properties of the delta samplers (spec.md 4.2), under Spec.              *)
(***************************************************************************)
\* the state of the sampler the behaviour exercises
Running == IF domain = "cpu" THEN CPU_COMPUTE_RUNNING ELSE NET_COMPUTE_RUNNING
Handle == IF domain = "cpu" THEN CPU_COMPUTE_TIMEOUT ELSE NET_COMPUTE_TIMEOUT
Armed == IF domain = "cpu" THEN cpuTimers ELSE netTimers
\* loop iterations suspended at their awaited computation
InFlight == pc["run"] + (IF domain = "cpu" THEN cpuLoops ELSE netLoops)
SamplerState == <<PREV_CPU_CORES, CPU_UTILIZATION, CPU_COMPUTE_RUNNING, CPU_COMPUTE_TIMEOUT,
                  cpuTimers, cpuDelay, cpuLoops, NET_LAST_COMPUTE, NET_LAST_STATS,
                  NET_BYTES_PER_SECOND, NET_COMPUTE_RUNNING, NET_COMPUTE_TIMEOUT, netTimers, netDelay,
                  netLoops>>
\* the step is a call of the read request (the operating system does not move)
ReadStep == osVars' = osVars /\ hLast' \in {"start", "hit", "hitreturn"}
\* the step is a call of the stop function
StopStep == osVars' = osVars /\ hLast' \in {"stop", "stopagain"}

\* C1: at most one sampling loop per domain is active: never two armed timers,
\* and never an armed timer together with a loop iteration in flight that will
\* arm another one (the flag is set when it resumes).
C1_OneLoopActive ==
    /\ Cardinality(Armed) <= 1
    /\ ~(Armed # {} /\ Running /\ InFlight > 0)

\* C2: read requests with no stop call in between start at most one loop: a
\* read request that finds the sampler STOPPED starts one and sets the flag
\* before it suspends; a read request after it starts no loop and arms no timer.
C2_OneStart ==
    [][ReadStep =>
          /\ hStarts' <= 1
          /\ ~Running => (hLast' = "start" /\ Running' /\ hStarts' = 1)
          /\ hStarts >= 1 => (hLast' \in {"hit", "hitreturn"}
                              /\ UNCHANGED <<cpuTimers, cpuDelay, netTimers, netDelay, cpuLoops, netLoops,
                                             hStarts>>
                              /\ pc'["run"] = pc["run"])]_vars

\* a second read request arrived while the first one, which started the loop,
\* is still at its first suspension point
C2_Witness == hStarts = 1 /\ hLast \in {"hit", "hitreturn"} /\ pc["run"] > 0

\* C3: whenever a read request resolves, at least two snapshots have been taken
\* since the sampler last left STOPPED.
C3_TwoSnapshots == hLast \in {"hitreturn", "return"} => hSnaps >= 2

\* C4: after a stop call and until the next read request, no timer is armed and
\* the flag is false.
C4_StoppedIsQuiet == hStopped => (Armed = {} /\ ~Running)

\* C5: after a stop call and a read request, no rate derived from a snapshot
\* taken before the stop call is published.
C5_NoPreStopRate == ~hRatePreStop

\* C6: a read request issued while RUNNING takes no snapshot, arms no timer and
\* leaves the sampler's state as it is; it resolves with the rate state the
\* sampler holds when it resolves.
C6_ReadWhileRunning ==
    [][/\ (ReadStep /\ Running) =>
             /\ hLast' \in {"hit", "hitreturn"}
             /\ UNCHANGED <<SamplerState, hSnaps>>
             /\ hLast' = "hitreturn" =>
                   lastResult' = (IF domain = "cpu" THEN CPU_UTILIZATION
                                  ELSE NetInterfaces(TRUE))
       /\ pc'["hitgather"] < pc["hitgather"] =>
             /\ UNCHANGED <<SamplerState, hSnaps>>
             /\ \E ok \in BOOLEAN : lastResult' = NetInterfaces(ok)]_vars

\* a read request found the CPU sampler RUNNING, with two snapshots taken and a
\* timer armed, and resolved with the rate state
C6_Witness ==
    /\ domain = "cpu"
    /\ hLast = "hitreturn"
    /\ hSnaps = 2
    /\ CPU_COMPUTE_TIMEOUT \in cpuTimers
    /\ lastResult = CPU_UTILIZATION
    /\ Len(lastResult.cores) = 1

\* C7: a stop call leaves the flag false and the handle null; right after a
\* stop call, or when no read request was ever issued, it changes nothing.
C7_StopIdempotent ==
    [][StopStep =>
          /\ ~Running'
          /\ Handle' = Null
          /\ (hLast' = "stopagain" \/ ~hEverStarted) =>
                UNCHANGED <<SamplerState, pc, lastResult>>]_vars

\* two stop calls in a row, after the sampler was started
C7_Witness == hLast = "stopagain" /\ hEverStarted /\ InFlight > 0

(***************************************************************************)
(* Properties of computeCpuUtilization (spec.md 4.2, division policy),     *)
(* under SpecTicks.                                                        *)
(***************************************************************************)
RECURSIVE SumOver(_, _, _)
\* the sum of f[i][1] - f[i][2] over the indices of I
SumOver(I, P, C) ==
    IF I = {} THEN [busy |-> 0, total |-> 0]
    ELSE LET i == CHOOSE x \in I : TRUE
             rest == SumOver(I \ {i}, P, C)
         IN  [busy |-> rest.busy
                       + (C[i].user + C[i].nice + C[i].sys + C[i].irq)
                       - (P[i].user + P[i].nice + P[i].sys + P[i].irq),
              total |-> rest.total
                        + (C[i].user + C[i].nice + C[i].sys + C[i].irq + C[i].idle)
                        - (P[i].user + P[i].nice + P[i].sys + P[i].irq + P[i].idle)]

\* the cores both snapshots have
Common(P, C) == (1..Len(P)) \cap (1..Len(C))

\* C8: after a tick with previous snapshot P and current snapshot C the overall
\* rate is the sum of the busy deltas over the sum of the total deltas of the
\* cores both snapshots have, and exactly 0 when the sum of the total deltas
\* is 0.
C8_RatioOfSums ==
    [][osVars' = osVars =>
          LET sums == SumOver(Common(PREV_CPU_CORES, PREV_CPU_CORES'),
                              PREV_CPU_CORES, PREV_CPU_CORES')
              overall == CPU_UTILIZATION'.overall
          IN  IF sums.total = 0 THEN overall = [k |-> "num", n |-> 0, d |-> 1]
              ELSE /\ overall.k = "num"
                   /\ overall.n * sums.total = sums.busy * overall.d]_vars

\* two cores with rates 1 and 0 whose overall rate is 1/3, not the mean 1/2
C8_Witness ==
    /\ hSnaps = 2
    /\ CPU_UTILIZATION.cores = <<Frac(1, 1), Frac(0, 1)>>
    /\ CPU_UTILIZATION.overall = Frac(1, 3)

\* C9: no per-core entry is NaN or infinite.
C9_CoresFinite ==
    \A i \in 1..Len(CPU_UTILIZATION.cores) : IsFinite(CPU_UTILIZATION.cores[i])

(***************************************************************************)
(* Failure semantics of getDrives (spec.md 4.4), under SpecDrives.         *)
(***************************************************************************)
\* C10: when the drive listing command fails, getDrives resolves with the
\* empty list.
C10_FailedListingIsEmpty ==
    (hLast = "failed" /\ drvPc # "exec") => (drvPc = "resolved" /\ drives = <<>>)

(***************************************************************************)
(* getTemperatures (src/src/drive.ts:139-292).                             *)
(***************************************************************************)
\* bound of the rows a tool prints
MaxToolRows == 2

\* the sum of two quotients
FracAdd(a, b) == Frac(a.n * b.d + b.n * a.d, a.d * b.d)

RECURSIVE FracSum(_, _)
\* items.reduce((a, b) => a + b, 0), from index i on
FracSum(items, i) ==
    IF i > Len(items) THEN Zero ELSE FracAdd(items[i], FracSum(items, i + 1))

\* drive.ts:280, 282, 286, 289: sum / length
Mean(items) ==
    LET sum == FracSum(items, 1)
    IN  IF Len(items) = 0 THEN NaN ELSE Frac(sum.n, sum.d * Len(items))

\* what a sensor file or a column of tool output holds: digits or something else
SensorContents ==
    {[digits |-> TRUE, n |-> 45000], [digits |-> TRUE, n |-> 60000],
     [digits |-> FALSE, n |-> 0]}

\* the outcomes of fs.readFile of a sensor file
SensorReads ==
    {[ok |-> TRUE, content |-> c] : c \in SensorContents}
    \cup {[ok |-> FALSE, content |-> [digits |-> FALSE, n |-> 0]]}

\* the null of drive.ts:152-154, 194-196
NullTemp == [k |-> "null"]

\* drive.ts:150-154, 192-196: parseInt, millidegrees to degrees, null on failure
MilliToDegrees(read) ==
    IF read.ok /\ read.content.digits THEN JsDiv(read.content.n, 1000) ELSE NullTemp

\* the types of thermal zones, the names and the labels of hwmon sensors
ThermalTypes == {"x86_pkg_temp", "acpitz", "gpu-thermal"}
HwmonNames == {"coretemp", "amdgpu"}
HwmonLabels == {"Core 0", "Package id 0"}

\* String.prototype.includes on the strings of the model
Includes(str, sub) ==
    <<str, sub>> \in {<<"x86_pkg_temp", "x86">>, <<"gpu-thermal", "gpu">>,
                      <<"coretemp", "core">>, <<"amdgpu", "gpu">>,
                      <<"core 0", "core">>, <<"package id 0", "package">>,
                      <<"Up 2 hours (healthy)", "healthy">>,
                      <<"Up 2 hours (unhealthy)", "unhealthy">>,
                      <<"Up 2 hours (unhealthy)", "healthy">>,
                      <<"Up 5 seconds (health: starting)", "starting">>}

\* String.prototype.startsWith on the strings of the model
StartsWith(str, prefix) == <<str, prefix>> \in {<<"acpitz", "acp">>}

\* x = x || []; x.push(temp)
Push(arr, temp) == [present |-> TRUE, items |-> Append(arr.items, temp)]

\* drive.ts:157-172
ClassifyThermal(t, type, temp) ==
    IF Includes(type, "core") THEN [t EXCEPT !.cpuCores = Push(@, temp)]
    ELSE IF Includes(type, "x86") \/ Includes(type, "soc_thermal")
    THEN [t EXCEPT !.cpuSockets = Push(@, temp)]
    ELSE IF StartsWith(type, "acp") \/ StartsWith(type, "pch")
    THEN [t EXCEPT !.motherboard = temp]
    ELSE IF Includes(type, "gpu") \/ Includes(type, "graphics")
    THEN [t EXCEPT !.gpus = Push(@, temp)]
    ELSE IF Includes(type, "wifi") THEN [t EXCEPT !.wifi = temp]
    ELSE IF Includes(type, "battery") THEN [t EXCEPT !.battery = temp]
    ELSE t

\* drive.ts:203-219
ClassifyHwmon(t, name, temp) ==
    IF Includes(name, "core") THEN [t EXCEPT !.cpuCores = Push(@, temp)]
    ELSE IF Includes(name, "socket") \/ Includes(name, "package")
    THEN [t EXCEPT !.cpuSockets = Push(@, temp)]
    ELSE IF Includes(name, "gpu") \/ Includes(name, "graphics")
    THEN [t EXCEPT !.gpus = Push(@, temp)]
    ELSE IF Includes(name, "motherboard") \/ Includes(name, "mainboard")
            \/ Includes(name, "mb")
    THEN [t EXCEPT !.motherboard = temp]
    ELSE IF Includes(name, "wifi") THEN [t EXCEPT !.wifi = temp]
    ELSE IF Includes(name, "battery") THEN [t EXCEPT !.battery = temp]
    ELSE t

\* drive.ts:230-240: the CurrentTemperature lines of the Windows query, in
\* tenths of a kelvin; a failed query yields '' and so no such line
WinReadings == {<<>>, <<3032>>, <<3032, 3182>>}

RECURSIVE WinLoop(_, _, _)
WinLoop(t, values, i) ==
    IF i > Len(values) THEN t
    ELSE WinLoop([t EXCEPT !.cpu = JsDiv(values[i] - 2732, 10)], values, i + 1)

\* a row of nvidia-smi: the GPU and the memory temperature
NvidiaRows ==
    {[gpu |-> [digits |-> TRUE, n |-> 50], memory |-> [digits |-> TRUE, n |-> 40]],
     [gpu |-> [digits |-> TRUE, n |-> 70], memory |-> [digits |-> FALSE, n |-> 0]]}

\* drive.ts:254-274: the loop over the rows; acc holds the object and the two
\* cleared flags
RECURSIVE NvidiaLoop(_, _, _)
NvidiaLoop(acc, rows, i) ==
    IF i > Len(rows) THEN acc
    ELSE LET row == rows[i]
             t1 == IF row.gpu.digits
                   THEN [acc.t EXCEPT !.gpus =
                            Push(IF acc.clearedGPUTemp THEN @
                                 ELSE [present |-> TRUE, items |-> <<>>],
                                 Frac(row.gpu.n, 1))]
                   ELSE acc.t
             t2 == IF row.memory.digits
                   THEN [t1 EXCEPT !.gpuMemories =
                            Push(IF acc.clearedGPUMemoryTemp THEN @
                                 ELSE [present |-> TRUE, items |-> <<>>],
                                 Frac(row.memory.n, 1))]
                   ELSE t1
         IN  NvidiaLoop([t |-> t2,
                         clearedGPUTemp |-> acc.clearedGPUTemp \/ row.gpu.digits,
                         clearedGPUMemoryTemp |->
                             acc.clearedGPUMemoryTemp \/ row.memory.digits],
                        rows, i + 1)

\* the post processing with the cores asked before the sockets
PostProcess_CoresFirst(t) ==
    LET t1 == IF t.cpu = NotSet
              THEN IF t.cpuCores.present /\ Len(t.cpuCores.items) > 0
                   THEN [t EXCEPT !.cpu = Mean(t.cpuCores.items)]
                   ELSE IF t.cpuSockets.present /\ Len(t.cpuSockets.items) > 0
                   THEN [t EXCEPT !.cpu = Mean(t.cpuSockets.items)]
                   ELSE t
              ELSE t
        t2 == IF t1.gpu = NotSet /\ t1.gpus.present /\ Len(t1.gpus.items) > 0
              THEN [t1 EXCEPT !.gpu = Mean(t1.gpus.items)] ELSE t1
    IN  IF t2.gpuMemory = NotSet /\ t2.gpuMemories.present
           /\ Len(t2.gpuMemories.items) > 0
        THEN [t2 EXCEPT !.gpuMemory = Mean(t2.gpuMemories.items)] ELSE t2

\* drive.ts:278-290
PostProcess(t) ==
    LET t1 == IF t.cpu = NotSet
              THEN IF t.cpuSockets.present /\ Len(t.cpuSockets.items) > 0
                   THEN [t EXCEPT !.cpu = Mean(t.cpuSockets.items)]
                   ELSE IF t.cpuCores.present /\ Len(t.cpuCores.items) > 0
                   THEN [t EXCEPT !.cpu = Mean(t.cpuCores.items)]
                   ELSE t
              ELSE t
        t2 == IF t1.gpu = NotSet /\ t1.gpus.present /\ Len(t1.gpus.items) > 0
              THEN [t1 EXCEPT !.gpu = Mean(t1.gpus.items)] ELSE t1
    IN  IF t2.gpuMemory = NotSet /\ t2.gpuMemories.present
           /\ Len(t2.gpuMemories.items) > 0
        THEN [t2 EXCEPT !.gpuMemory = Mean(t2.gpuMemories.items)] ELSE t2

\* getTemperatures is called (drive.ts:139-144, 227, 247): up to the first
\* awaited listing or command of the platform
TmpCall ==
    /\ domain = "temps"
    /\ tmpPc \in {"idle", "resolved", "rejected"}
    /\ temperatures' = NoTemperatures
    /\ zoneTask' = [z \in Zones |-> [stage |-> "none", temp |-> NotSet]]
    /\ hwmonTask' = [d \in Hwmons |-> "none"]
    /\ sensorReads' = NoReads
    /\ tmpPc' = (CASE platform = "linux" -> "thermalDir"
                   [] platform = "win32" -> "winQuery"
                   [] OTHER -> "nvidia")
    /\ UNCHANGED notTmp

\* fs.readdir('/sys/class/thermal') settles (drive.ts:144-145): nothing catches
\* its rejection
TmpThermalListed ==
    /\ tmpPc = "thermalDir"
    /\ \/ /\ tmpPc' = "rejected"
          /\ UNCHANGED zoneTask
       \/ \E files \in SUBSET Zones :
             /\ zoneTask' = [z \in Zones |->
                               IF z \in files THEN [stage |-> "listed", temp |-> NotSet]
                               ELSE zoneTask[z]]
             /\ tmpPc' = "hwmonDir"
    /\ UNCHANGED <<notTmp, temperatures, hwmonTask, sensorReads>>

\* fs.readdir('/sys/class/hwmon') settles (drive.ts:145-149, 174-175): nothing
\* catches its rejection; on success every task of the batch starts its first
\* read
TmpHwmonListed ==
    /\ tmpPc = "hwmonDir"
    /\ \/ /\ tmpPc' = "rejected"
          /\ UNCHANGED <<zoneTask, hwmonTask>>
       \/ \E files \in SUBSET Hwmons :
             /\ zoneTask' = [z \in Zones |->
                               IF zoneTask[z].stage = "listed"
                               THEN [stage |-> "temp", temp |-> NotSet]
                               ELSE zoneTask[z]]
             /\ hwmonTask' = [d \in Hwmons |-> IF d \in files THEN "readdir" ELSE "none"]
             /\ tmpPc' = "batch"
    /\ UNCHANGED <<notTmp, temperatures, sensorReads>>

\* the read of a zone's temp file settles (drive.ts:148-156)
TmpZoneTemp(z) ==
    /\ tmpPc = "batch"
    /\ zoneTask[z].stage = "temp"
    /\ \E read \in SensorReads :
          LET temp == MilliToDegrees(read)
          IN  zoneTask' = [zoneTask EXCEPT ![z] =
                              IF temp = NullTemp THEN [stage |-> "done", temp |-> NotSet]
                              ELSE [stage |-> "type", temp |-> temp]]
    /\ UNCHANGED <<notTmp, tmpPc, temperatures, hwmonTask, sensorReads>>

\* the read of a zone's type file settles (drive.ts:156-172); a failed read
\* yields ''
TmpZoneType(z) ==
    /\ tmpPc = "batch"
    /\ zoneTask[z].stage = "type"
    /\ \E type \in ThermalTypes \cup {""} :
          /\ temperatures' = ClassifyThermal(temperatures, ToLowerCase(type), zoneTask[z].temp)
          /\ sensorReads' = [sensorReads EXCEPT ![z] = [name |-> ToLowerCase(type),
                                                        temp |-> zoneTask[z].temp]]
    /\ zoneTask' = [zoneTask EXCEPT ![z] = [stage |-> "done", temp |-> NotSet]]
    /\ UNCHANGED <<notTmp, tmpPc, hwmonTask>>

\* the listing of a hwmon device settles (drive.ts:175-181): a rejection ends
\* the task, and Promise.allSettled tolerates it
TmpHwmonDir(d) ==
    /\ tmpPc = "batch"
    /\ hwmonTask[d] = "readdir"
    /\ \E ok \in BOOLEAN :
          hwmonTask' = [hwmonTask EXCEPT ![d] = IF ok THEN "files" ELSE "done"]
    /\ UNCHANGED <<notTmp, tmpPc, temperatures, zoneTask, sensorReads>>

\* the reads of the files name, temp1_label and temp1_input of a hwmon device
\* have all settled (drive.ts:180-220); a failed read yields null, '' and null
TmpHwmonFiles(d) ==
    /\ tmpPc = "batch"
    /\ hwmonTask[d] = "files"
    /\ \E defaultName \in HwmonNames \cup {""}, label \in HwmonLabels \cup {""},
          read \in SensorReads :
          LET temp == MilliToDegrees(read)
              name == ToLowerCase(IF label # "" THEN label ELSE defaultName)
          IN  /\ temperatures' = IF temp = NullTemp THEN temperatures
                                  ELSE ClassifyHwmon(temperatures, name, temp)
              /\ sensorReads' = IF temp = NullTemp THEN sensorReads
                                 ELSE [sensorReads EXCEPT ![d] = [name |-> name, temp |-> temp]]
    /\ hwmonTask' = [hwmonTask EXCEPT ![d] = "done"]
    /\ UNCHANGED <<notTmp, tmpPc, zoneTask>>

\* every task of the batch has settled (drive.ts:146, 222-223, 247)
TmpBatchJoined ==
    /\ tmpPc = "batch"
    /\ \A z \in Zones : zoneTask[z].stage \in {"none", "done"}
    /\ \A d \in Hwmons : hwmonTask[d] \in {"none", "done"}
    /\ tmpPc' = "nvidia"
    /\ UNCHANGED <<notTmp, temperatures, zoneTask, hwmonTask, sensorReads>>

\* the Windows query settles (drive.ts:227-241, 247)
TmpWinDone ==
    /\ tmpPc = "winQuery"
    /\ \E values \in WinReadings : temperatures' = WinLoop(temperatures, values, 1)
    /\ tmpPc' = "nvidia"
    /\ UNCHANGED <<notTmp, zoneTask, hwmonTask, sensorReads>>

\* nvidia-smi settles (drive.ts:247-292): a failed command yields '' and so no
\* row; the post processing; the call resolves
TmpNvidiaDone ==
    /\ tmpPc = "nvidia"
    /\ \E rows \in SeqsUpTo(NvidiaRows, MaxToolRows) :
          temperatures' =
              PostProcess(NvidiaLoop([t |-> temperatures, clearedGPUTemp |-> FALSE,
                                      clearedGPUMemoryTemp |-> FALSE], rows, 1).t)
    /\ tmpPc' = "resolved"
    /\ UNCHANGED <<notTmp, zoneTask, hwmonTask, sensorReads>>

InitTmp ==
    /\ domain = "temps"
    /\ platform \in {"linux", "win32", "darwin"}
    /\ InitTunables
    /\ InitCpu
    /\ InitNet
    /\ InitCallers
    /\ InitOs
    /\ osOnline = 1
    /\ InitHistory
    /\ InitCalls

NextTmp ==
    \/ TmpCall
    \/ TmpThermalListed
    \/ TmpHwmonListed
    \/ \E z \in Zones : TmpZoneTemp(z)
    \/ \E z \in Zones : TmpZoneType(z)
    \/ \E d \in Hwmons : TmpHwmonDir(d)
    \/ \E d \in Hwmons : TmpHwmonFiles(d)
    \/ TmpBatchJoined
    \/ TmpWinDone
    \/ TmpNvidiaDone

SpecTemps == InitTmp /\ [][NextTmp]_vars

\* C11: getTemperatures never rejects, whichever of its sources fail.
C11_NeverRejects == tmpPc # "rejected"

(***************************************************************************)
(* getGPUs (src/unnamed/part_006:58-198).                                  *)
(***************************************************************************)
\* GPUs the inventory tool can list
MaxGpus == 2

\* parseInt / parseFloat of the numerals of the model; NaN for any other text
NumberOf(str) ==
    CASE str = "2" -> Frac(2, 1)
      [] str = "25" -> Frac(25, 1)
      [] str = "30" -> Frac(30, 1)
      [] str = "50" -> Frac(50, 1)
      [] str = "60" -> Frac(60, 1)
      [] str = "100" -> Frac(100, 1)
      [] str = "1024" -> Frac(1024, 1)
      [] str = "1" -> Frac(1, 1)
      [] str = "3" -> Frac(3, 1)
      [] str = "16" -> Frac(16, 1)
      [] str = "64" -> Frac(64, 1)
      [] str = "72" -> Frac(72, 1)
      [] str = "1.2" -> Frac(6, 5)
      [] str = "1200" -> Frac(1200, 1)
      [] OTHER -> NaN

\* {} as GPU, and {} as GPUUtilization
EmptyGpu ==
    [id |-> Undefined, name |-> Undefined, processor |-> Undefined, status |-> Undefined,
     driverDate |-> Undefined, driverVersion |-> Undefined, memory |-> NotSet,
     displayAttached |-> NotSet, displayActive |-> NotSet, utilization |-> NotSet]
EmptyUtilization ==
    [memory |-> NotSet, memoryTemperature |-> NotSet, processing |-> NotSet,
     temperature |-> NotSet, fanSpeed |-> NotSet, powerDraw |-> NotSet]

\* the null of `let curr: GPU | null`
NoGpu == [k |-> "null"]

\* if (curr) gpus.push(curr)
PushCurr(list, curr) == IF curr # NoGpu THEN Append(list, curr) ELSE list

\* a line of `lspci -k | grep -i -A3 "\[vga\]\|\[3d\]"`: the line of a device
\* (bus, id, name after the second colon) or a line of its details
LspciDevices ==
    {[text |-> "device", bus |-> "00", id |-> "00:02.0", name |-> "Intel UHD"],
     [text |-> "device", bus |-> "01", id |-> "01:00.0", name |-> "NVIDIA RTX"]}
LspciDetail == [text |-> "detail", bus |-> "", id |-> "", name |-> ""]

\* part_006:66-77: the loop over the lines of lspci
RECURSIVE LspciLoop(_, _, _, _)
LspciLoop(lines, i, curr, list) ==
    IF i > Len(lines) THEN [curr |-> curr, gpus |-> list]
    ELSE LET line == lines[i]
         IN  IF line.text = "" THEN LspciLoop(lines, i + 1, curr, list)
             ELSE IF line.bus = "00"
             THEN LspciLoop(lines, i + 1,
                            [EmptyGpu EXCEPT !.id = line.id, !.name = line.name,
                                             !.status = "ok"],
                            PushCurr(list, curr))
             ELSE LspciLoop(lines, i + 1, curr, list)

\* part_006:62-78: the linux branch; the loop ends at the break
LspciParse(lines) == LspciLoop(lines, 1, NoGpu, <<>>).gpus

\* a block of `Get-CimInstance -ClassName Win32_VideoController | Format-List`,
\* each line split at ' : ' and trimmed
VideoControllers ==
    {<< <<"Name", "NVIDIA RTX">>, <<"Status", "OK">>, <<"PNPDeviceID", "PCI-1">>,
        <<"AdapterRAM", "1024">>, <<"DriverVersion", "31.0">> >>,
     << <<"Caption", "Intel UHD">>, <<"Name", "Intel UHD">>, <<"AdapterRAM", "">>,
        <<"PNPDeviceID", "PCI-2">> >>}
BlankLine == <<"", "">>

\* part_006:88-122: the loop over the lines of the Windows tool
RECURSIVE VideoLoop(_, _, _, _)
VideoLoop(lines, i, curr, list) ==
    IF i > Len(lines) THEN [curr |-> curr, gpus |-> list]
    ELSE LET key == lines[i][1]
             value == lines[i][2]
             c == IF curr = NoGpu THEN EmptyGpu ELSE curr
         IN  IF key = "" /\ value = ""
             THEN VideoLoop(lines, i + 1, NoGpu, PushCurr(list, curr))
             ELSE IF value = "" THEN VideoLoop(lines, i + 1, curr, list)
             ELSE IF key = "Name"
             THEN VideoLoop(lines, i + 1, [c EXCEPT !.name = value], list)
             ELSE IF key = "Status"
             THEN VideoLoop(lines, i + 1, [c EXCEPT !.status = ToLowerCase(value)], list)
             ELSE IF key = "PNPDeviceID"
             THEN VideoLoop(lines, i + 1, [c EXCEPT !.id = value], list)
             ELSE IF key = "VideoProcessor"
             THEN VideoLoop(lines, i + 1, [c EXCEPT !.processor = value], list)
             ELSE IF key = "AdapterRAM"
             THEN IF NumberOf(value) = NaN THEN VideoLoop(lines, i + 1, curr, list)
                  ELSE VideoLoop(lines, i + 1, [c EXCEPT !.memory = NumberOf(value)], list)
             ELSE IF key = "DriverDate"
             THEN VideoLoop(lines, i + 1, [c EXCEPT !.driverDate = value], list)
             ELSE IF key = "DriverVersion"
             THEN VideoLoop(lines, i + 1, [c EXCEPT !.driverVersion = value], list)
             ELSE VideoLoop(lines, i + 1, curr, list)

\* part_006:82-124: the win32 branch; after the loop it pushes the last record
VideoParse(lines) ==
    LET r == VideoLoop(lines, 1, NoGpu, <<>>) IN PushCurr(r.gpus, r.curr)

RECURSIVE Flatten(_, _)
\* the lines of a sequence of blocks, each block followed by the lines `after`
Flatten(blocks, after) ==
    IF blocks = <<>> THEN <<>>
    ELSE blocks[1] \o after \o Flatten(Tail(blocks), after)

\* what the inventory tool of the platform prints when it succeeds
InventoryOutputs(plat) ==
    IF plat = "win32"
    THEN {<<BlankLine>> \o Flatten(blocks, <<BlankLine>>) \o tail :
             blocks \in SeqsUpTo(VideoControllers, MaxGpus),
             tail \in {<<>>, <<BlankLine>>}}
    ELSE {Flatten([i \in 1..Len(devs) |-> <<devs[i]>>], <<LspciDetail>>) :
             devs \in SeqsUpTo(LspciDevices, MaxGpus)}

\* '' as the platform's loop sees it: one empty line
EmptyInventory(plat) ==
    IF plat = "win32" THEN <<BlankLine>>
    ELSE << [text |-> "", bus |-> "", id |-> "", name |-> ""] >>

\* part_006:60-126: the inventory records of the platform's branch
InventoryParse(plat, lines) ==
    CASE plat = "linux" -> LspciParse(lines)
      [] plat = "win32" -> VideoParse(lines)
      [] OTHER -> <<>>

\* a row of nvidia-smi, split at ',' and trimmed (part_006:137-148)
GpuRows ==
    {[name |-> "NVIDIA RTX", displayAttached |-> "Enabled", displayActive |-> "Disabled",
      fanSpeed |-> "30", memoryTotal |-> "2", utilizationGPU |-> "50",
      utilizationMemory |-> "25", temperatureGPU |-> "60", temperatureMemory |-> "[N/A]",
      powerDraw |-> "100"],
     [name |-> "Tesla T4", displayAttached |-> "No", displayActive |-> "",
      fanSpeed |-> "[N/A]", memoryTotal |-> "", utilizationGPU |-> "",
      utilizationMemory |-> "", temperatureGPU |-> "50", temperatureMemory |-> "",
      powerDraw |-> ""]}

\* a boolean field that is set
Bool(b) == [k |-> "bool", b |-> b]

\* part_006:165-166
DisplayFlag(text) == Bool(ToLowerCase(text) \in {"yes", "enabled", "1"})

\* text && !Number.isNaN(parseFloat(text))
IsNumeral(text) == text # "" /\ NumberOf(text) # NaN

\* if (!currGpu.utilization) currGpu.utilization = {}; utilization[field] = value
SetUtilization(gpu, field, value) ==
    [gpu EXCEPT !.utilization =
        [(IF @ = NotSet THEN EmptyUtilization ELSE @) EXCEPT ![field] = value]]

Percent(x) == Frac(x.n, x.d * 100)

\* part_006:165-192: the fields a row sets in its record
ApplyRow(gpu, row) ==
    LET g1 == IF row.displayAttached # ""
              THEN [gpu EXCEPT !.displayAttached = DisplayFlag(row.displayAttached)]
              ELSE gpu
        g2 == IF row.displayActive # ""
              THEN [g1 EXCEPT !.displayActive = DisplayFlag(row.displayActive)] ELSE g1
        g3 == IF IsNumeral(row.fanSpeed)
              THEN SetUtilization(g2, "fanSpeed", Percent(NumberOf(row.fanSpeed))) ELSE g2
        g4 == IF IsNumeral(row.memoryTotal)
              THEN [g3 EXCEPT !.memory = Frac(NumberOf(row.memoryTotal).n * 1024 * 1024, 1)]
              ELSE g3
        g5 == IF IsNumeral(row.utilizationGPU)
              THEN SetUtilization(g4, "processing", Percent(NumberOf(row.utilizationGPU)))
              ELSE g4
        g6 == IF IsNumeral(row.utilizationMemory)
              THEN SetUtilization(g5, "memory", Percent(NumberOf(row.utilizationMemory)))
              ELSE g5
        g7 == IF IsNumeral(row.temperatureGPU)
              THEN SetUtilization(g6, "temperature", NumberOf(row.temperatureGPU)) ELSE g6
        g8 == IF IsNumeral(row.temperatureMemory)
              THEN SetUtilization(g7, "memoryTemperature", NumberOf(row.temperatureMemory))
              ELSE g7
    IN  IF IsNumeral(row.powerDraw)
        THEN SetUtilization(g8, "powerDraw", NumberOf(row.powerDraw)) ELSE g8

\* the index of the first record with the row's name, updated or not (a variant
\* C12 must tell apart)
MatchIndex_Any(list, updatedIndexes, name) ==
    IF \E g \in 1..Len(list) : list[g].name = name
    THEN CHOOSE g \in 1..Len(list) :
            list[g].name = name /\ \A h \in 1..(g - 1) : list[h].name # name
    ELSE 0

\* part_006:149-159: the index of the first record with the row's name that no
\* row has updated, or 0
MatchIndex(list, updatedIndexes, name) ==
    IF \E g \in 1..Len(list) : g \notin updatedIndexes /\ list[g].name = name
    THEN CHOOSE g \in 1..Len(list) :
            /\ g \notin updatedIndexes /\ list[g].name = name
            /\ \A h \in 1..(g - 1) : h \in updatedIndexes \/ list[h].name # name
    ELSE 0

\* part_006:136-194: one iteration of the loop over the rows
MergeRow(acc, row) ==
    LET g == MatchIndex(acc.gpus, acc.updatedIndexes, row.name)
    IN  IF g # 0
        THEN [gpus |-> [acc.gpus EXCEPT ![g] = ApplyRow(@, row)],
              updatedIndexes |-> acc.updatedIndexes \cup {g}]
        ELSE [gpus |-> Append(acc.gpus,
                          ApplyRow([EmptyGpu EXCEPT !.id = row.name, !.name = row.name],
                                   row)),
              updatedIndexes |-> acc.updatedIndexes \cup {Len(acc.gpus) + 1}]

\* part_006:134-194: the loop over the first n rows
RECURSIVE MergeRows(_, _, _)
MergeRows(list, rows, n) ==
    IF n = 0 THEN [gpus |-> list, updatedIndexes |-> {}]
    ELSE MergeRow(MergeRows(list, rows, n - 1), rows[n])

\* getGPUs is called (part_006:58-62, 82, 130): up to the first awaited command
GpuCall ==
    /\ domain = "gpu"
    /\ gpuPc \in {"idle", "resolved"}
    /\ gpus' = <<>>
    /\ gpuLines' = <<>>
    /\ gpuBase' = <<>>
    /\ gpuRows' = <<>>
    /\ gpuPc' = IF platform \in {"linux", "win32"} THEN "inventory" ELSE "nvidia"
    /\ UNCHANGED notGpu

\* the inventory tool ends (part_006:62-126, 130): a failure yields ''
GpuInventoryDone ==
    /\ gpuPc = "inventory"
    /\ \E lines \in InventoryOutputs(platform) \cup {EmptyInventory(platform)} :
          /\ gpuLines' = lines
          /\ gpus' = InventoryParse(platform, lines)
    /\ gpuPc' = "nvidia"
    /\ UNCHANGED <<notGpu, gpuBase, gpuRows>>

\* nvidia-smi ends (part_006:130-197): a failure yields '' and so no row; the
\* call resolves
GpuNvidiaDone ==
    /\ gpuPc = "nvidia"
    /\ \E rows \in SeqsUpTo(GpuRows, MaxToolRows) :
          /\ gpuRows' = rows
          /\ gpus' = MergeRows(gpus, rows, Len(rows)).gpus
    /\ gpuBase' = gpus
    /\ gpuPc' = "resolved"
    /\ UNCHANGED <<notGpu, gpuLines>>

InitGpu ==
    /\ domain = "gpu"
    /\ platform \in {"linux", "win32", "darwin"}
    /\ InitTunables
    /\ InitCpu
    /\ InitNet
    /\ InitCallers
    /\ InitOs
    /\ osOnline = 1
    /\ InitHistory
    /\ InitCalls

NextGpu == GpuCall \/ GpuInventoryDone \/ GpuNvidiaDone

SpecGpus == InitGpu /\ [][NextGpu]_vars

(***************************************************************************)
(* Properties of the GPU merge (spec.md 4.4), under SpecGpus.              *)
(***************************************************************************)
\* the fields of a record that only the inventory sets
InventoryFields == {"id", "name", "processor", "status", "driverDate", "driverVersion"}
\* the fields a row of nvidia-smi can set, and those it can set in utilization
RowFields == {"memory", "displayAttached", "displayActive"}
UtilizationFields == DOMAIN EmptyUtilization

\* the utilization of a record, with every field not set when it has none
UtilizationOf(gpu) == IF gpu.utilization = NotSet THEN EmptyUtilization ELSE gpu.utilization

\* `after` holds the union of the fields of `before` and of the row: what the
\* row gives, and for every other field what `before` has
IsUnion(after, before, row) ==
    LET given == ApplyRow(EmptyGpu, row)
    IN  /\ \A f \in InventoryFields : after[f] = before[f]
        /\ \A f \in RowFields :
              after[f] = (IF given[f] # NotSet THEN given[f] ELSE before[f])
        /\ \A f \in UtilizationFields :
              UtilizationOf(after)[f] = (IF UtilizationOf(given)[f] # NotSet
                                         THEN UtilizationOf(given)[f]
                                         ELSE UtilizationOf(before)[f])

\* C12: a row whose name equals the name of a record no row was merged into is
\* merged into such a record, which then holds the union of its fields and the
\* row's, and the length is unchanged; a row that matches no such record
\* appends one record with id and name equal to the row's name.
C12_MergeOrAppend ==
    gpuPc = "resolved" =>
        /\ gpus = MergeRows(gpuBase, gpuRows, Len(gpuRows)).gpus
        /\ \A k \in 1..Len(gpuRows) :
              LET before == MergeRows(gpuBase, gpuRows, k - 1)
                  after == MergeRows(gpuBase, gpuRows, k).gpus
                  row == gpuRows[k]
                  unmerged == {g \in 1..Len(before.gpus) :
                                  /\ g \notin before.updatedIndexes
                                  /\ before.gpus[g].name = row.name}
              IN  IF unmerged # {}
                  THEN /\ Len(after) = Len(before.gpus)
                       /\ \E g \in unmerged :
                             /\ IsUnion(after[g], before.gpus[g], row)
                             /\ \A h \in 1..Len(after) : h # g => after[h] = before.gpus[h]
                  ELSE /\ Len(after) = Len(before.gpus) + 1
                       /\ after[Len(after)].id = row.name
                       /\ after[Len(after)].name = row.name
                       /\ IsUnion(after[Len(after)],
                                  [EmptyGpu EXCEPT !.id = row.name, !.name = row.name], row)
                       /\ \A h \in 1..Len(before.gpus) : after[h] = before.gpus[h]

\* the first of two rows named alike was merged into the inventory record of
\* that name, the second was appended
C12_Witness ==
    /\ gpuPc = "resolved"
    /\ Len(gpuBase) = 1
    /\ Len(gpuRows) = 2
    /\ gpuRows[1].name = gpuBase[1].name
    /\ gpuRows[2].name = gpuBase[1].name
    /\ Len(gpus) = 2
    /\ gpus[1].id = gpuBase[1].id
    /\ gpus[1].utilization # NotSet
    /\ gpus[2].id = gpuRows[2].name

(***************************************************************************)
(* Properties of the drive records (spec.md 4.4), under SpecDrives.        *)
(***************************************************************************)
\* C13: every drive record has utilization = used/total when total is not 0 and
\* utilization = 0 when total is 0; on win32, used = total - free.
C13_DriveUtilization ==
    drvPc = "resolved" =>
        \A i \in 1..Len(drives) :
            LET d == drives[i]
            IN  /\ d.total # 0 => /\ d.utilization.k = "num"
                                  /\ d.utilization.n * d.total = d.used * d.utilization.d
                /\ d.total = 0 => d.utilization = [k |-> "num", n |-> 0, d |-> 1]
                /\ platform = "win32" => d.used = d.total - d.free

\* a listing with a drive of size 0 and a drive that is 3/5 full
C13_Witness ==
    /\ drvPc = "resolved"
    /\ \E i, j \in 1..Len(drives) :
          /\ drives[i].total = 0
          /\ drives[i].utilization = Zero
          /\ drives[j].total = 1000
          /\ drives[j].utilization = Frac(3, 5)

(***************************************************************************)
(* getNetworkInterfaces over the link speeds an adapter can report         *)
(* (src/src/drive.ts:497-627).                                             *)
(***************************************************************************)
InitNics ==
    /\ domain = "net"
    /\ platform \in {"linux", "win32", "darwin"}
    /\ InitTunables
    /\ InitCpu
    /\ InitNet
    /\ InitCallers
    /\ osCpus = [i \in 1..MaxCores |-> NoTicks]
    /\ osNet = [n \in Nics |-> [rx |-> 0, tx |-> 0]]
    /\ now = 1
    /\ linkSpeed \in LinkSpeeds(platform)
    /\ osOnline = 1
    /\ InitHistory
    /\ InitCalls

\* a millisecond passes while the sampler and its readers are at rest or
\* suspended
NicsTick ==
    /\ NetTickCoarse
    /\ UNCHANGED <<domain, platform, tunables, cpuVars, netVars, pc, lastResult, histVars, callVars>>

NextNics == NetNext \/ NicsTick

SpecNics == InitNics /\ [][NextNics]_vars

\* the read request that resolved last returned interface n with a speed that
\* is a positive number
SpeedKnown(n) ==
    IF lastResult[n].speed = NotSet THEN FALSE ELSE lastResult[n].speed.bytes > 0

\* C14: of every interface a read request returns, utilization is the sampled
\* rates divided by speed.bytes when the link speed is known and a rate is
\* sampled, and is absent when the link speed is not reported or not positive.
C14_UtilizationOverSpeed ==
    (domain = "net" /\ hLast \in {"return", "hitreturn"}) =>
        \A n \in Nics :
            /\ (SpeedKnown(n) /\ n \in DOMAIN NET_BYTES_PER_SECOND) =>
                  lastResult[n].utilization =
                      [receive |-> JsDivNum(NET_BYTES_PER_SECOND[n].receive,
                                            lastResult[n].speed.bytes),
                       transmit |-> JsDivNum(NET_BYTES_PER_SECOND[n].transmit,
                                             lastResult[n].speed.bytes)]
            /\ ~SpeedKnown(n) => lastResult[n].utilization = NotSet

(***************************************************************************)
(* getDockerContainers (src/unnamed/part_008:83-192).                      *)
(*                                                                         *)
(* A port list is a sequence of tokens, each standing for the run of       *)
(* characters it spells: an address, a number, or one of the separators    *)
(* ":", "->", "/", "," and " ".  Every host of the model that has an       *)
(* address has a port after it.                                            *)
(***************************************************************************)
MaxContainers == 1
MaxPortEntries == 2

\* the entries docker prints in the Ports column
PortEntries ==
    {<<"0.0.0.0", ":", "80", "->", "80", "/", "tcp">>,
     <<"::", ":", "80", "->", "80", "/", "tcp">>,
     <<"127.0.0.1", ":", "443", "->", "443", "/", "udp">>,
     <<"8080", "->", "80">>}

\* what joins two entries: docker joins them with ", "
PortSeparators == {<<",">>, <<",", " ">>}

RECURSIVE PortLists(_)
PortLists(n) ==
    IF n = 0 THEN {<<>>}
    ELSE IF n = 1 THEN PortEntries \cup PortLists(0)
    ELSE PortLists(n - 1) \cup
         {l \o sep \o e : l \in PortLists(n - 1) \ {<<>>}, sep \in PortSeparators,
                          e \in PortEntries}

\* the State and Status columns
ContainerStates == {"running", "exited"}
StatusMessages(state) ==
    IF state = "running"
    THEN {"Up 2 hours", "Up 2 hours (healthy)", "Up 2 hours (unhealthy)",
          "Up 5 seconds (health: starting)"}
    ELSE {"Exited (0) 2 hours ago"}

\* part_008:84-85: the objects docker ps prints; without -a only the running
\* containers
DockerObjects(includeStopped) ==
    UNION {{[State |-> st, Status |-> msg, Ports |-> l] :
                msg \in StatusMessages(st), l \in PortLists(MaxPortEntries)} :
           st \in (IF includeStopped THEN ContainerStates ELSE {"running"})}

\* String.prototype.split(sep) on a sequence of tokens
RECURSIVE SplitOn(_, _, _, _)
SplitOn(str, sep, i, acc) ==
    IF i > Len(str) THEN acc
    ELSE IF str[i] = sep THEN SplitOn(str, sep, i + 1, Append(acc, <<>>))
    ELSE SplitOn(str, sep, i + 1,
                 [acc EXCEPT ![Len(acc)] = Append(@, str[i])])

Split(str, sep) == SplitOn(str, sep, 1, << <<>> >>)

\* the numerals of the model
PortNumber(tok) ==
    CASE tok = "80" -> 80
      [] tok = "443" -> 443
      [] tok = "8080" -> 8080
      [] OTHER -> -1

\* parseInt(str, 10): leading white space is skipped, then the digits are read
\* up to the first character that is none; NaN when there is no digit, or when
\* str is undefined (ok is FALSE)
RECURSIVE ParseIntTokens(_, _)
ParseIntTokens(ok, str) ==
    IF ~ok \/ Len(str) = 0 THEN NaN
    ELSE IF str[1] = " " THEN ParseIntTokens(ok, Tail(str))
    ELSE IF PortNumber(str[1]) >= 0 THEN Frac(PortNumber(str[1]), 1)
    ELSE NaN

\* String.prototype.lastIndexOf(':'), as the index of the token
RECURSIVE LastColon(_, _)
LastColon(host, i) ==
    IF i = 0 THEN 0
    ELSE IF host[i] = ":" THEN i
    ELSE LastColon(host, i - 1)

\* a === b of two numbers: NaN equals nothing
StrictEq(a, b) == a.k = "num" /\ b.k = "num" /\ a = b

\* a string that is set
Str(tokens) == [k |-> "string", s |-> tokens]

\* part_008:121-134: the mapping of one entry of the list
PortMappingOf(str) ==
    LET parts == Split(str, "/")
        mapping == parts[1]
        protocol == IF Len(parts) >= 2 THEN parts[2] ELSE <<"tcp">>
        sides == Split(mapping, "->")
        host == sides[1]
        containerPort == ParseIntTokens(Len(sides) >= 2,
                                        IF Len(sides) >= 2 THEN sides[2] ELSE <<>>)
        hostIdx == LastColon(host, Len(host))
    IN  IF hostIdx > 1
        THEN LET hostAddress == SubSeq(host, 1, hostIdx - 1)
             IN  [hostAddress |-> IF hostAddress # <<"0.0.0.0">> /\ hostAddress # <<"::">>
                                  THEN Str(hostAddress) ELSE NotSet,
                  hostPort |-> ParseIntTokens(TRUE, SubSeq(host, hostIdx + 1, Len(host))),
                  containerPort |-> containerPort,
                  protocol |-> protocol]
        ELSE [hostAddress |-> NotSet,
              hostPort |-> ParseIntTokens(TRUE, host),
              containerPort |-> containerPort,
              protocol |-> protocol]

\* part_008:137-143
AlreadyExists(portMappings, pm) ==
    \E i \in 1..Len(portMappings) :
        LET o == portMappings[i]
        IN  /\ o.hostAddress = pm.hostAddress
            /\ StrictEq(o.hostPort, pm.hostPort)
            /\ StrictEq(o.containerPort, pm.containerPort)
            /\ o.protocol = pm.protocol

\* part_008:119-146: the loop over the entries
RECURSIVE PortsLoop(_, _, _)
PortsLoop(entries, i, portMappings) ==
    IF i > Len(entries) THEN portMappings
    ELSE LET pm == PortMappingOf(entries[i])
         IN  PortsLoop(entries, i + 1,
                       IF AlreadyExists(portMappings, pm) THEN portMappings
                       ELSE Append(portMappings, pm))

\* part_008:117-147, 170: an empty Ports column gives no mapping
ParsePorts(ports) ==
    IF ports = <<>> THEN <<>> ELSE PortsLoop(Split(ports, ","), 1, <<>>)

\* part_008:158-167
HealthStateOf(status) ==
    IF Includes(status, "unhealthy") THEN "unhealthy"
    ELSE IF Includes(status, "healthy") THEN "healthy"
    ELSE IF Includes(status, "starting") THEN "starting"
    ELSE Undefined

\* part_008:185
IsHealthy(state, healthState) ==
    healthState = "healthy" \/ (state = "running" /\ healthState = Undefined)

\* part_008:169-189
ContainerInfo(j) ==
    [ports |-> ParsePorts(j.Ports),
     state |-> j.State,
     statusMessage |-> j.Status,
     isRunning |-> (j.State = "running"),
     isHealthy |-> IsHealthy(j.State, HealthStateOf(j.Status)),
     healthState |-> HealthStateOf(j.Status)]

\* getDockerContainers is called (part_008:83-86): up to the awaited command
DockCall ==
    /\ dockPc # "exec"
    /\ \E includeStopped \in BOOLEAN :
          dockLines' \in {<<>>} \cup {<<j>> : j \in DockerObjects(includeStopped)}
    /\ dockPc' = "exec"
    /\ containers' = <<>>
    /\ UNCHANGED <<domain, platform, tunables, cpuVars, netVars, pc, lastResult, osVars, histVars,
                   drvVars, tmpVars, gpuVars, portVars, memVars>>

\* the command ends (part_008:86-191): its lines are mapped to containers, or
\* it failed and the list is empty
DockExecDone ==
    /\ dockPc = "exec"
    /\ \E ok \in BOOLEAN :
          containers' = IF ok THEN [i \in 1..Len(dockLines) |-> ContainerInfo(dockLines[i])]
                        ELSE <<>>
    /\ dockPc' = "resolved"
    /\ UNCHANGED <<domain, platform, tunables, cpuVars, netVars, pc, lastResult, osVars, histVars,
                   drvVars, tmpVars, gpuVars, portVars, memVars, dockLines>>

InitDock ==
    /\ domain = "docker"
    /\ platform = "linux"
    /\ InitTunables
    /\ InitCpu
    /\ InitNet
    /\ InitCallers
    /\ InitOs
    /\ osOnline = 1
    /\ InitHistory
    /\ InitCalls

NextDock == DockCall \/ DockExecDone

SpecDocker == InitDock /\ [][NextDock]_vars

(***************************************************************************)
(* Properties of the containers, under SpecDocker.                         *)
(***************************************************************************)
\* C15: a container whose state is 'running' and whose health state is not
\* 'unhealthy' (absent, 'healthy' or 'starting') has isHealthy = true.
C15_HealthyUnlessUnhealthy ==
    dockPc = "resolved" =>
        \A i \in 1..Len(containers) :
            (containers[i].state = "running" /\ containers[i].healthState # "unhealthy")
                => containers[i].isHealthy

\* the entries of the Ports column of container line i, as docker joined them
EntriesOf(i) ==
    LET RECURSIVE Strip(_)
        Strip(e) == IF Len(e) > 0 /\ e[1] = " " THEN Strip(Tail(e)) ELSE e
        raw == Split(dockLines[i].Ports, ",")
    IN  IF dockLines[i].Ports = <<>> THEN <<>>
        ELSE [k \in 1..Len(raw) |-> Strip(raw[k])]

\* the mapping pm is the one of entry e of docker's list
MappingOfEntry(pm, e) ==
    LET hasProtocol == \E k \in 1..Len(e) : e[k] = "/"
        hasAddress == \E k \in 1..Len(e) : e[k] = ":"
    IN  /\ ~hasProtocol => pm.protocol = <<"tcp">>
        /\ hasProtocol => pm.protocol = <<e[Len(e)]>>
        /\ (~hasAddress \/ e[1] \in {"0.0.0.0", "::"}) => pm.hostAddress = NotSet
        /\ (hasAddress /\ e[1] \notin {"0.0.0.0", "::"}) => pm.hostAddress = Str(<<e[1]>>)

\* C17: every entry of a container's port list, whatever its position, is
\* parsed to a mapping with protocol tcp when none is given, without
\* hostAddress when the address is 0.0.0.0 or ::, and with any other address
\* kept; no two mappings of the list are equal in all four fields.
C17_PortMappings ==
    (dockPc = "resolved" /\ Len(containers) = Len(dockLines)) =>
        \A i \in 1..Len(containers) :
            /\ \A k \in 1..Len(EntriesOf(i)) :
                  \E m \in 1..Len(containers[i].ports) :
                      /\ MappingOfEntry(containers[i].ports[m], EntriesOf(i)[k])
                      /\ containers[i].ports[m].hostPort
                             = ParseIntTokens(TRUE, <<EntriesOf(i)[k][
                                   LastColon(EntriesOf(i)[k], Len(EntriesOf(i)[k])) + 1]>>)
            /\ \A m, n \in 1..Len(containers[i].ports) :
                  m # n => containers[i].ports[m] # containers[i].ports[n]

(***************************************************************************)
(* checkIfPortIsInUse (src/src/drive.ts:472-489), with the default         *)
(* bindAddress.  The servers of the probes and the other servers of the    *)
(* machine compete for the ports; net.Server binds the port in a turn of   *)
(* the event loop after listen() was called and emits 'listening' or       *)
(* 'error' in the turn after that.                                         *)
(***************************************************************************)
\* the ports of the model: one below 1024, which only a privileged process
\* may bind, and one above
ProbedPorts == {80, 12345}

\* some server holds the port: another server of the machine, or the server of
\* a probe
PortHeld(port) ==
    port \in listeners \/ \E q \in bound : probePort[q] = port

\* binding the port is refused: the permission is checked before the port is
notAllowed(port) == port < 1024 /\ ~privileged

\* another server of the machine starts or stops listening
ServerListen(port) ==
    /\ ~PortHeld(port)
    /\ listeners' = listeners \cup {port}
    /\ UNCHANGED <<notPort, privileged, probePc, probeCode, bound, probePort, probeResult, probeHeld>>

ServerClose(port) ==
    /\ port \in listeners
    /\ listeners' = listeners \ {port}
    /\ UNCHANGED <<notPort, privileged, probePc, probeCode, bound, probePort, probeResult, probeHeld>>

\* drive.ts:472-488: the server is created, the handlers are registered and
\* listen is called; the promise is returned pending
ProbeCall(p, port) ==
    /\ probePc[p] \in {"idle", "resolved"}
    /\ probePc' = [probePc EXCEPT ![p] = "listen"]
    /\ probePort' = [probePort EXCEPT ![p] = port]
    /\ UNCHANGED <<notPort, listeners, privileged, probeCode, bound, probeResult, probeHeld>>

\* drive.ts:485: the server tries to bind the port
ProbeBind(p) ==
    /\ probePc[p] = "listen"
    /\ probeHeld' = [probeHeld EXCEPT ![p] = PortHeld(probePort[p])]
    /\ IF notAllowed(probePort[p])
       THEN /\ probePc' = [probePc EXCEPT ![p] = "error"]
            /\ probeCode' = [probeCode EXCEPT ![p] = "EACCES"]
            /\ UNCHANGED bound
       ELSE IF PortHeld(probePort[p])
       THEN /\ probePc' = [probePc EXCEPT ![p] = "error"]
            /\ probeCode' = [probeCode EXCEPT ![p] = "EADDRINUSE"]
            /\ UNCHANGED bound
       ELSE /\ probePc' = [probePc EXCEPT ![p] = "listening"]
            /\ bound' = bound \cup {p}
            /\ UNCHANGED probeCode
    /\ UNCHANGED <<notPort, listeners, privileged, probePort, probeResult>>

\* drive.ts:476-483: the handler of 'error'
ProbeError(p) ==
    /\ probePc[p] = "error"
    /\ bound' = bound \ {p}
    /\ probeResult' = [probeResult EXCEPT ![p] = (probeCode[p] = "EADDRINUSE")]
    /\ probePc' = [probePc EXCEPT ![p] = "resolved"]
    /\ UNCHANGED <<notPort, listeners, privileged, probeCode, probePort, probeHeld>>

\* drive.ts:485-488: the callback of listen
ProbeListening(p) ==
    /\ probePc[p] = "listening"
    /\ bound' = bound \ {p}
    /\ probeResult' = [probeResult EXCEPT ![p] = FALSE]
    /\ probePc' = [probePc EXCEPT ![p] = "resolved"]
    /\ UNCHANGED <<notPort, listeners, privileged, probeCode, probePort, probeHeld>>

InitProbe ==
    /\ domain = "port"
    /\ platform = "linux"
    /\ InitTunables
    /\ InitCpu
    /\ InitNet
    /\ InitCallers
    /\ InitOs
    /\ osOnline = 1
    /\ InitHistory
    /\ InitDrives /\ InitTemps /\ InitGpus /\ InitDocker /\ InitMemory
    /\ listeners = {}
    /\ privileged \in BOOLEAN
    /\ probePc = [p \in ProbeIds |-> "idle"]
    /\ probeCode = [p \in ProbeIds |-> "none"]
    /\ bound = {}
    /\ probePort = [p \in ProbeIds |-> 0]
    /\ probeResult = [p \in ProbeIds |-> FALSE]
    /\ probeHeld = [p \in ProbeIds |-> FALSE]

NextProbe ==
    \/ \E port \in ProbedPorts : ServerListen(port)
    \/ \E port \in ProbedPorts : ServerClose(port)
    \/ \E p \in ProbeIds, port \in ProbedPorts : ProbeCall(p, port)
    \/ \E p \in ProbeIds : ProbeBind(p)
    \/ \E p \in ProbeIds : ProbeError(p)
    \/ \E p \in ProbeIds : ProbeListening(p)

SpecProbe == InitProbe /\ [][NextProbe]_vars

\* C16: a probe resolves true exactly when a server held the port when the
\* probe tried to bind it, and once it has resolved its own server holds no
\* port.
C16_ProbeTellsListening ==
    \A p \in ProbeIds :
        probePc[p] = "resolved" =>
            /\ probeResult[p] = probeHeld[p]
            /\ p \notin bound

(***************************************************************************)
(* The length of the per-core rates (spec.md 4.1), under SpecTicks.        *)
(***************************************************************************)
\* C19: after every sampling tick of the CPU sampler that had a snapshot to
\* compare with, the per-core rate array is as long as the snapshot the tick
\* took has cores.
C19_CoresLength ==
    hSnaps >= 2 => Len(CPU_UTILIZATION.cores) = Len(PREV_CPU_CORES)

(***************************************************************************)
(* The snapshot of the network sampler (spec.md 4.5), under Spec.          *)
(***************************************************************************)
\* a sample computation of the network sampler runs to its end in this step
\* (drive.ts:445)
NetTickEnds == NetRunResume \/ NetSecondDone \/ NetLoopResume

\* the counters the operating system reports for interface n
CountersNow(n) == [receivedBytes |-> osNet[n].rx, transmittedBytes |-> osNet[n].tx]

\* C20: the stored counters of every interface and the stored timestamp come
\* from the same sampling tick: the tick that stores the timestamp stores the
\* counters it captured for every interface the sampler holds.
C20_SnapshotWhole ==
    [][(NetTickEnds /\ NET_LAST_COMPUTE' = now) =>
          \A n \in DOMAIN NET_LAST_STATS' : NET_LAST_STATS'[n] = CountersNow(n)]_vars

(***************************************************************************)
(* The samplers when no stop function is called and every computation     *)
(* completes: the event loop fires every pending timer and resumes every   *)
(* loop iteration whose awaited computation has ended.                     *)
(***************************************************************************)
\* the intervals a caller configures: the default, and one below 1
Intervals == {0, DefaultInterval}

InitLive ==
    /\ \/ domain = "cpu" /\ platform = "linux"
       \/ domain = "net" /\ platform \in {"linux", "win32", "darwin"}
    /\ CPU_COMPUTE_UTILIZATION_INTERVAL
           \in (IF domain = "cpu" THEN Intervals ELSE {DefaultInterval})
    /\ NET_COMPUTE_UTILIZATION_INTERVAL
           \in (IF domain = "net" THEN Intervals ELSE {DefaultInterval})
    /\ InitCpu
    /\ InitNet
    /\ InitCallers
    /\ InitOs
    /\ osOnline = 1
    /\ InitHistory
    /\ InitCalls

CpuTimerFires == \E h \in TimerIds : CpuTimerFire(h)
NetTimerFires == \E h \in TimerIds : NetTimerFire(h)

NextLive ==
    \/ CpuRead
    \/ CpuRunResume
    \/ CpuSleepDone
    \/ CpuReturn
    \/ CpuTimerFires
    \/ CpuLoopResume
    \/ NetRead
    \/ NetRunResume
    \/ NetSecondDone
    \/ NetGatherDone
    \/ NetTimerFires
    \/ NetLoopResume
    \/ EnvNext

\* what every step of a loop changes: the pending timers, the suspended
\* iterations
loopVars == <<cpuTimers, cpuLoops, netTimers, netLoops, pc>>

SpecLive ==
    /\ InitLive
    /\ [][NextLive]_vars
    /\ WF_loopVars(CpuTimerFires)
    /\ WF_loopVars(CpuLoopResume)
    /\ WF_loopVars(CpuRunResume)
    /\ WF_loopVars(NetTimerFires)
    /\ WF_loopVars(NetLoopResume)
    /\ WF_loopVars(NetRunResume)

\* the configured interval and the delay of the timer armed last
Interval ==
    IF domain = "cpu" THEN CPU_COMPUTE_UTILIZATION_INTERVAL
    ELSE NET_COMPUTE_UTILIZATION_INTERVAL
Delay == IF domain = "cpu" THEN cpuDelay ELSE netDelay

\* a step in which the sampler's loop takes a snapshot: the computation of a
\* timer-started iteration runs to its end
LoopSnapshot ==
    \/ CpuTimerFires
    \/ NetLoopResume /\ platform \in {"linux", "win32"}
    \/ NetTimerFires /\ platform \notin {"linux", "win32"}

\* C18: once the sampler is RUNNING and no stop function is called, its loop
\* takes snapshots infinitely often; at any time exactly one iteration is
\* suspended at its computation or one timer is pending, and the timer was
\* armed with max(interval, 1) ms.
C18_SamplesForever ==
    /\ [](Running => Cardinality(Armed) + InFlight = 1)
    /\ [](Armed # {} => /\ Delay >= 1
                        /\ Delay >= Interval
                        /\ Delay \in {1, Interval})
    /\ ([]~Running \/ []<><<LoopSnapshot>>_loopVars)

\* with an interval of 0 the loop's timer fired and the iteration armed the
\* next timer, with a delay of 1 ms
C18_Witness ==
    /\ Running
    /\ Interval = 0
    /\ Handle = 2
    /\ Armed = {2}
    /\ InFlight = 0
    /\ Delay = 1
    /\ hSnaps = 2

(***************************************************************************)
(* The rates of the network sampler at its edges (spec.md 4.5), under      *)
(* Spec.                                                                   *)
(***************************************************************************)
\* C21: no rate of the network sampler is the quotient of a division by a
\* time delta of zero: every published rate is a number.
C21_NoZeroDelta ==
    domain = "net" =>
        \A n \in DOMAIN NET_BYTES_PER_SECOND :
            /\ IsFinite(NET_BYTES_PER_SECOND[n].receive)
            /\ IsFinite(NET_BYTES_PER_SECOND[n].transmit)

\* C22: the tick that sees a key for the first time publishes no rate (none,
\* or not a number) or a rate of 0 for it: an interface the sampler held no
\* counters of, a core the previous snapshot did not have.
C22_FirstSeenNoRate ==
    [][/\ NetTickEnds =>
             \A n \in DOMAIN NET_BYTES_PER_SECOND' :
                 n \notin DOMAIN NET_LAST_STATS =>
                     /\ NET_BYTES_PER_SECOND'[n].receive \in {Zero, NaN}
                     /\ NET_BYTES_PER_SECOND'[n].transmit \in {Zero, NaN}
       /\ \A i \in 1..Len(CPU_UTILIZATION'.cores) :
             i > Len(PREV_CPU_CORES) => CPU_UTILIZATION'.cores[i] = Zero]_vars

(***************************************************************************)
(* The base records and the merge of getGPUs (spec.md 4.4), under          *)
(* SpecGpus.                                                               *)
(***************************************************************************)
\* the names of the GPU entries of the inventory tool's output, in its order:
\* the device lines of lspci, the Name lines of the Windows tool
RECURSIVE EntryNames(_, _)
EntryNames(lines, i) ==
    IF i > Len(lines) THEN <<>>
    ELSE IF platform = "linux"
    THEN (IF lines[i].text = "device" THEN <<lines[i].name>> ELSE <<>>)
         \o EntryNames(lines, i + 1)
    ELSE (IF lines[i][1] = "Name" THEN <<lines[i][2]>> ELSE <<>>)
         \o EntryNames(lines, i + 1)

\* the base records: the list before the rows of nvidia-smi are merged
BaseRecords == IF gpuPc = "resolved" THEN gpuBase ELSE gpus

\* C24: every GPU entry of the inventory tool's output yields exactly one base
\* record, the last entry included.
C24_EveryEntryOnce ==
    (gpuPc \in {"nvidia", "resolved"} /\ platform \in {"linux", "win32"}) =>
        [i \in 1..Len(BaseRecords) |-> BaseRecords[i].name] = EntryNames(gpuLines, 1)

\* how many of the first n inventory records, and of the first n rows, have
\* the name
BaseNamed(name, n) == Cardinality({g \in 1..n : gpuBase[g].name = name})
RowsNamed(name, n) == Cardinality({k \in 1..n : gpuRows[k].name = name})

\* row k found an inventory record of its name that no earlier row was applied
\* to: fewer earlier rows have its name than inventory records have
RowMatched(k) == RowsNamed(gpuRows[k].name, k - 1) < BaseNamed(gpuRows[k].name, Len(gpuBase))

\* the rows that matched no such record, in the order of the rows
RECURSIVE UnmatchedRows(_)
UnmatchedRows(k) ==
    IF k > Len(gpuRows) THEN <<>>
    ELSE (IF RowMatched(k) THEN <<>> ELSE <<gpuRows[k]>>) \o UnmatchedRows(k + 1)

\* C23: no two rows are applied to the same record: the j-th row of a name is
\* applied to the j-th inventory record of that name, or to a new record when
\* there is none; the inventory records keep their order, the new records
\* follow in the order of their rows, and the length is (inventory records) +
\* (rows) - (rows that matched).
C23_OneRowPerRecord ==
    gpuPc = "resolved" =>
        /\ Len(gpus) = Len(gpuBase) + Len(gpuRows)
                          - Cardinality({k \in 1..Len(gpuRows) : RowMatched(k)})
        /\ \A g \in 1..Len(gpuBase) :
              IF BaseNamed(gpuBase[g].name, g) <= RowsNamed(gpuBase[g].name, Len(gpuRows))
              THEN \E k \in 1..Len(gpuRows) :
                      /\ gpuRows[k].name = gpuBase[g].name
                      /\ RowsNamed(gpuRows[k].name, k) = BaseNamed(gpuBase[g].name, g)
                      /\ IsUnion(gpus[g], gpuBase[g], gpuRows[k])
                      /\ gpus[g] # gpuBase[g]
              ELSE gpus[g] = gpuBase[g]
        /\ \A j \in 1..Len(UnmatchedRows(1)) :
              LET row == UnmatchedRows(1)[j]
              IN  /\ Len(gpuBase) + j <= Len(gpus)
                  /\ gpus[Len(gpuBase) + j].id = row.name
                  /\ IsUnion(gpus[Len(gpuBase) + j],
                             [EmptyGpu EXCEPT !.id = row.name, !.name = row.name], row)

\* two inventory records and two rows, all of one name: each row went to its
\* own record, and no record was appended
C23_Witness ==
    /\ gpuPc = "resolved"
    /\ Len(gpuBase) = 2
    /\ gpuBase[1].name = gpuBase[2].name
    /\ Len(gpuRows) = 2
    /\ gpuRows[1].name = gpuBase[1].name
    /\ gpuRows[2].name = gpuBase[1].name
    /\ Len(gpus) = 2
    /\ gpus[1] # gpuBase[1]
    /\ gpus[2] # gpuBase[2]

(***************************************************************************)
(* getMemoryInfo (src/unnamed/part_004:78-353), under SpecMemory.  A line  *)
(* of the tool is a sequence of tokens: texts, the separator of key and   *)
(* value, and white space.                                                 *)
(***************************************************************************)
\* the bound of the number of blocks the tool prints
MaxModules == 3

\* the fields of a MemoryDevice the code sets
DeviceFields ==
    {"manufacturer", "model", "bankName", "locator", "size", "busWidth", "clockSpeed",
     "maxClockSpeed", "transfersPerClockCycle", "type", "voltage", "bandwidth"}

\* {} as MemoryDevice
EmptyDevice == [f \in DeviceFields |-> NotSet]

\* Object.keys(device)
KeysOf(device) == {f \in DeviceFields : device[f] # NotSet}

\* a number that is neither 0 nor NaN, or a string that is not empty
Truthy(x) ==
    CASE x.k = "num" -> x.n # 0
      [] x.k = "string" -> x.s # <<>>
      [] OTHER -> FALSE

\* String.prototype.trim() on a sequence of tokens
RECURSIVE TrimStart(_)
TrimStart(str) ==
    IF str # <<>> /\ Head(str) \in {" ", "\t", "\r"} THEN TrimStart(Tail(str)) ELSE str

RECURSIVE TrimEnd(_)
TrimEnd(str) ==
    IF str # <<>> /\ str[Len(str)] \in {" ", "\t", "\r"}
    THEN TrimEnd(SubSeq(str, 1, Len(str) - 1)) ELSE str

Trim(str) == TrimEnd(TrimStart(str))

\* parseFloat(str): the leading numeral, NaN when there is none
ParseFloat(str) == IF str = <<>> THEN NaN ELSE NumberOf(str[1])

\* parseInt(str, 10): the integer part of the leading numeral
ParseInt(str) ==
    LET x == ParseFloat(str)
    IN  IF x.k = "num" THEN Frac(x.n \div x.d, 1) ELSE NaN

\* const [key, value] = line.split(sep).map((s) => s.trim()); an undefined value
\* is the empty one here, the code only asks !value of it
KeyOf(line, sep) == Trim(Split(line, sep)[1])
ValueOf(line, sep) ==
    LET parts == Split(line, sep)
    IN  IF Len(parts) >= 2 THEN Trim(parts[2]) ELSE <<>>

\* a * b and Math.min(a, b) of two numbers
FracMul(a, b) == Frac(a.n * b.n, a.d * b.d)
FracMin(a, b) == IF a.n * b.d <= b.n * a.d THEN a ELSE b

\* memoryInfo.devices = memoryInfo.devices || []; memoryInfo.devices.push(device)
PushDevice(devices, device) == [present |-> TRUE, items |-> Append(devices.items, device)]

\* part_004:162-170 and 99-108: a line without key, or the first line, closes
\* the block and opens the next
CloseBlock(st) ==
    [st EXCEPT !.devices = IF st.open /\ KeysOf(st.currDevice) # {}
                           THEN PushDevice(@, st.currDevice) ELSE @,
               !.currDevice = EmptyDevice,
               !.open = TRUE,
               !.ignoreBlock = TRUE]

\* part_004:207-325: the name of an SMBIOS memory type, NotSet for a value the
\* switch has no case of
SmbiosTypeName(value) ==
    CASE value = <<"0">> -> Str(<<"Unknown">>)
      [] value = <<"1">> -> Str(<<"Other">>)
      [] value = <<"2">> -> Str(<<"DRAM">>)
      [] value = <<"3">> -> Str(<<"Synchronous DRAM">>)
      [] value = <<"4">> -> Str(<<"Cache DRAM">>)
      [] value = <<"5">> -> Str(<<"EDO">>)
      [] value = <<"6">> -> Str(<<"EDRAM">>)
      [] value = <<"7">> -> Str(<<"VRAM">>)
      [] value = <<"8">> -> Str(<<"SRAM">>)
      [] value = <<"9">> -> Str(<<"RAM">>)
      [] value = <<"10">> -> Str(<<"ROM">>)
      [] value = <<"11">> -> Str(<<"Flash">>)
      [] value = <<"12">> -> Str(<<"EEPROM">>)
      [] value = <<"13">> -> Str(<<"FEPROM">>)
      [] value = <<"14">> -> Str(<<"EPROM">>)
      [] value = <<"15">> -> Str(<<"CDRAM">>)
      [] value = <<"16">> -> Str(<<"3DRAM">>)
      [] value = <<"17">> -> Str(<<"SDRAM">>)
      [] value = <<"18">> -> Str(<<"SGRAM">>)
      [] value = <<"19">> -> Str(<<"RDRAM">>)
      [] value = <<"20">> -> Str(<<"DDR">>)
      [] value = <<"21">> -> Str(<<"DDR2">>)
      [] value = <<"22">> -> Str(<<"DDR2 FB-DIMM">>)
      [] value = <<"24">> -> Str(<<"DDR3">>)
      [] value = <<"25">> -> Str(<<"FBD2">>)
      [] value = <<"26">> -> Str(<<"DDR4">>)
      [] value = <<"27">> -> Str(<<"LPDDR">>)
      [] value = <<"28">> -> Str(<<"LPDDR2">>)
      [] value = <<"29">> -> Str(<<"LPDDR3">>)
      [] value = <<"30">> -> Str(<<"LPDDR4">>)
      [] value = <<"34">> -> Str(<<"HBM">>)
      [] value = <<"35">> -> Str(<<"HBM2">>)
      [] value = <<"36">> -> Str(<<"DDR5">>)
      [] value = <<"37">> -> Str(<<"LPDDR5">>)
      [] OTHER -> NotSet

\* part_004:269-322: the types whose case sets transfersPerClockCycle = 2
DoubleRateTypes ==
    {<<"20">>, <<"21">>, <<"22">>, <<"24">>, <<"25">>, <<"26">>, <<"27">>, <<"28">>,
     <<"29">>, <<"30">>, <<"34">>, <<"35">>, <<"36">>, <<"37">>}

\* part_004:173-326: a line of the win32 tool that has a key and a value
WinField(st, key, value) ==
    LET dev == st.currDevice
        n == ParseInt(value)
        f == ParseFloat(value)
    IN  CASE key = <<"Manufacturer">> ->
               [st EXCEPT !.currDevice["manufacturer"] = Str(value)]
          [] key \in {<<"Model">>, <<"PartNumber">>} ->
               [st EXCEPT !.currDevice["model"] = IF Truthy(@) THEN @ ELSE Str(value)]
          [] key = <<"BankLabel">> ->
               [st EXCEPT !.currDevice["bankName"] = Str(value)]
          [] key = <<"Capacity">> ->
               IF n # NaN THEN [st EXCEPT !.currDevice["size"] = n] ELSE st
          [] key \in {<<"DataWidth">>, <<"TotalWidth">>} ->
               IF n # NaN THEN [st EXCEPT !.currDevice["busWidth"] = n] ELSE st
          [] key = <<"InterleavePosition">> ->
               IF n # NaN THEN [st EXCEPT !.positions = @ \cup {n}] ELSE st
          [] key = <<"Speed">> ->
               IF n # NaN
               THEN [st EXCEPT !.currDevice["maxClockSpeed"] = n,
                               !.currDevice["clockSpeed"] = IF Truthy(@) THEN @ ELSE n]
               ELSE st
          [] key \in {<<"ConfiguredClockSpeed">>, <<"ConfiguredMemorySpeed">>} ->
               IF n # NaN
               THEN [st EXCEPT !.currDevice["clockSpeed"] = n,
                               !.currDevice["maxClockSpeed"] = IF Truthy(@) THEN @ ELSE n]
               ELSE st
          [] key \in {<<"ConfiguredVoltage">>, <<"Voltage">>} ->
               IF f # NaN
               THEN [st EXCEPT !.currDevice["voltage"] = FracMul(f, Frac(1, 1000))]
               ELSE st
          [] key = <<"DeviceLocator">> ->
               [st EXCEPT !.currDevice["locator"] = Str(value)]
          [] key = <<"SMBIOSMemoryType">> ->
               [st EXCEPT !.currDevice["type"] =
                              IF SmbiosTypeName(value) # NotSet THEN SmbiosTypeName(value) ELSE @,
                          !.currDevice["transfersPerClockCycle"] =
                              IF value \in DoubleRateTypes THEN Frac(2, 1) ELSE @]
          [] OTHER -> st

\* part_004:160-171 then 173-326: one line of the win32 tool
WinLine(st, line) ==
    LET key == KeyOf(line, " : ")
        value == ValueOf(line, " : ")
    IN  IF key = <<>> \/ ~st.open THEN CloseBlock(st)
        ELSE IF value = <<>> THEN st
        ELSE WinField(st, key, value)

\* part_004:114-148: a line of dmidecode that has a key and a value, in a block
\* that is not ignored
DmiField(st, key, value) ==
    LET n == ParseInt(Split(value, " ")[1])
        f == ParseFloat(Split(value, " ")[1])
    IN  CASE key \in {<<"Total Width">>, <<"Data Width">>} ->
               IF n # NaN THEN [st EXCEPT !.currDevice["busWidth"] = n] ELSE st
          [] key = <<"Size">> ->
               IF n # NaN
               THEN [st EXCEPT !.currDevice["size"] = FracMul(n, Frac(1024 * 1024, 1))]
               ELSE st
          [] key \in {<<"Locator">>, <<"Socket Designation">>} ->
               [st EXCEPT !.currDevice["locator"] = Str(value)]
          [] key = <<"Bank Locator">> ->
               [st EXCEPT !.currDevice["bankName"] = Str(value)]
          [] key = <<"Type">> ->
               [st EXCEPT !.currDevice["type"] = Str(value)]
          [] key = <<"Speed">> ->
               IF n # NaN
               THEN [st EXCEPT !.currDevice["clockSpeed"] = n,
                               !.currDevice["maxClockSpeed"] = n]
               ELSE st
          [] key \in {<<"Configured Memory Speed">>, <<"Configured Clock Speed">>} ->
               IF n # NaN
               THEN [st EXCEPT !.currDevice["clockSpeed"] = n,
                               !.currDevice["maxClockSpeed"] = IF Truthy(@) THEN @ ELSE n]
               ELSE st
          [] key = <<"Manufacturer">> ->
               [st EXCEPT !.currDevice["manufacturer"] = Str(value)]
          [] key = <<"Part Number">> ->
               [st EXCEPT !.currDevice["model"] = IF Truthy(@) THEN @ ELSE Str(value)]
          [] key = <<"Rank">> ->
               IF ParseInt(value) # NaN THEN [st EXCEPT !.positions = @ \cup {ParseInt(value)}]
               ELSE st
          [] key \in {<<"Voltage">>, <<"Configured Voltage">>} ->
               IF f # NaN THEN [st EXCEPT !.currDevice["voltage"] = f] ELSE st
          [] OTHER -> st

\* part_004:97-149: one line of dmidecode
DmiLine(st, line) ==
    LET key == KeyOf(line, ": ")
        value == ValueOf(line, ": ")
    IN  IF key = <<>> \/ ~st.open THEN CloseBlock(st)
        ELSE IF value = <<>>
             THEN [st EXCEPT !.ignoreBlock = @ \/ key = <<"Memory Device">>]
        ELSE IF st.ignoreBlock THEN st
        ELSE DmiField(st, key, value)

\* part_004:87, 94-95, 158: before the first line
ParseStart ==
    [devices |-> NoArray, currDevice |-> EmptyDevice, open |-> FALSE, ignoreBlock |-> TRUE,
     positions |-> {}]

\* part_004:97-149, 160-327: the loop over the first n lines
RECURSIVE ParseLines(_, _, _)
ParseLines(plat, lines, n) ==
    IF n = 0 THEN ParseStart
    ELSE IF plat = "win32" THEN WinLine(ParseLines(plat, lines, n - 1), lines[n])
    ELSE DmiLine(ParseLines(plat, lines, n - 1), lines[n])

\* device.transfersPerClockCycle ?? 1
OrOne(x) == IF x = NotSet THEN Frac(1, 1) ELSE x

\* ((clockSpeed * 1000 * 1000 * busWidth) / 8) * transfers
Bandwidth(clockSpeed, busWidth, transfers) ==
    FracMul(FracMul(FracMul(FracMul(clockSpeed, Frac(1000 * 1000, 1)), busWidth),
                    Frac(1, 8)),
            transfers)

\* part_004:339: the device takes part in the bandwidth
Qualifies(device) ==
    Truthy(device["size"]) /\ Truthy(device["busWidth"]) /\ Truthy(device["clockSpeed"])

\* part_004:339-346: the body of the loop over the devices
PostDevice(acc, device) ==
    IF ~Qualifies(device) THEN [acc EXCEPT !.devices = Append(@, device)]
    ELSE LET clockSpeed == IF Truthy(acc.clockSpeed)
                           THEN FracMin(acc.clockSpeed, device["clockSpeed"])
                           ELSE device["clockSpeed"]
             busWidth == IF Truthy(acc.busWidth)
                         THEN FracMin(acc.busWidth, device["busWidth"])
                         ELSE device["busWidth"]
             transfersPerCycle ==
                 IF Truthy(acc.transfersPerCycle)
                 THEN FracMin(acc.transfersPerCycle, OrOne(device["transfersPerClockCycle"]))
                 ELSE device["transfersPerClockCycle"]
         IN  [clockSpeed |-> clockSpeed,
              busWidth |-> busWidth,
              transfersPerCycle |-> transfersPerCycle,
              devices |-> Append(acc.devices,
                                 [device EXCEPT !["bandwidth"] =
                                     Bandwidth(device["clockSpeed"], device["busWidth"],
                                               OrOne(transfersPerCycle))])]

\* part_004:335-347: the loop over the first n devices
RECURSIVE PostDevices(_, _)
PostDevices(devices, n) ==
    IF n = 0
    THEN [clockSpeed |-> NotSet, busWidth |-> NotSet, transfersPerCycle |-> NotSet,
          devices |-> <<>>]
    ELSE PostDevice(PostDevices(devices, n - 1), devices[n])

\* part_004:332-350: the post-processing
PostProcessMemory(devices, positions) ==
    IF ~devices.present THEN [devices |-> devices, bandwidth |-> NotSet]
    ELSE LET acc == PostDevices(devices.items, Len(devices.items))
             parallelism == IF Cardinality(positions) > 1 THEN Cardinality(positions) ELSE 1
         IN  [devices |-> [present |-> TRUE, items |-> acc.devices],
              bandwidth |->
                  IF Truthy(acc.clockSpeed) /\ Truthy(acc.busWidth)
                  THEN FracMul(Bandwidth(acc.clockSpeed, acc.busWidth,
                                         OrOne(acc.transfersPerCycle)),
                               Frac(parallelism, 1))
                  ELSE NotSet]

\* ---- what the tools print
MemBlank == <<>>

\* Get-CimInstance ... | Format-List: blocks of 'key : value' lines
WinBlocks ==
    { << <<"Capacity", " : ", "1024">>, <<"DataWidth", " : ", "64">>,
         <<"Speed", " : ", "3">>, <<"SMBIOSMemoryType", " : ", "26">>,
         <<"InterleavePosition", " : ", "1">> >>,
      << <<"Capacity", " : ", "1024">>, <<"DataWidth", " : ", "72">>,
         <<"ConfiguredClockSpeed", " : ", "2">>, <<"InterleavePosition", " : ", "2">> >>,
      << <<"Manufacturer", " : ", "Kingston">> >> }

\* dmidecode --type memory: a handle line, a heading, and indented
\* 'key: value' lines
DmiBlocks ==
    { << <<"Handle 0x0010, DMI type 16, 23 bytes">>, <<"Physical Memory Array">>,
         <<"\t", "Number Of Devices", ": ", "2">> >>,
      << <<"Handle 0x0011, DMI type 17, 40 bytes">>, <<"Memory Device">>,
         <<"\t", "Total Width", ": ", "64", " ", "bits">>,
         <<"\t", "Size", ": ", "16", " ", "MB">>,
         <<"\t", "Speed", ": ", "3", " ", "MT/s">>,
         <<"\t", "Manufacturer", ": ", "Kingston">>,
         <<"\t", "Part Number", ": ", "KF432">>,
         <<"\t", "Rank", ": ", "1">>,
         <<"\t", "Configured Voltage", ": ", "1.2", " ", "V">> >> }

MemBlocks(plat) == IF plat = "win32" THEN WinBlocks ELSE DmiBlocks

\* the blocks, each followed by gap blank lines but the last, which trail
\* follow
RECURSIVE JoinBlocks(_, _, _)
JoinBlocks(blocks, gap, trail) ==
    IF blocks = <<>> THEN <<>>
    ELSE Head(blocks)
         \o [i \in 1..(IF Len(blocks) = 1 THEN trail ELSE gap) |-> MemBlank]
         \o JoinBlocks(Tail(blocks), gap, trail)

\* the outputs of the tool, split at the line ends: lead blank lines, then
\* the blocks
MemOutputs(plat) ==
    { [i \in 1..lead |-> MemBlank] \o JoinBlocks(blocks, gap, trail) :
        lead \in 0..1, gap \in 1..2, trail \in 0..1,
        blocks \in SeqsUpTo(MemBlocks(plat), MaxModules) } \ {<<>>}

\* the output '' of a tool that failed or printed nothing
NoMemOutput == <<MemBlank>>

\* getMemoryInfo is called (part_004:78-92, 154): up to the awaited command; a
\* platform without a case resolves at once
MemCall ==
    /\ domain = "memory"
    /\ memPc \in {"idle", "resolved"}
    /\ memoryInfo' = NoMemoryInfo
    /\ interleavePositions' = {}
    /\ memLines' = <<>>
    /\ memPc' = IF platform \in {"linux", "darwin", "win32"} THEN "exec" ELSE "resolved"
    /\ UNCHANGED notMem

\* the command ends (part_004:92-352): the lines are parsed, the bandwidths
\* are computed and the call resolves
MemExecDone ==
    /\ memPc = "exec"
    /\ \E lines \in MemOutputs(platform) \cup {NoMemOutput} :
          LET st == ParseLines(platform, lines, Len(lines))
          IN  /\ memLines' = lines
              /\ interleavePositions' = st.positions
              /\ memoryInfo' = PostProcessMemory(st.devices, st.positions)
    /\ memPc' = "resolved"
    /\ UNCHANGED notMem

InitMem ==
    /\ domain = "memory"
    /\ platform \in {"linux", "darwin", "win32", "freebsd"}
    /\ InitTunables
    /\ InitCpu
    /\ InitNet
    /\ InitCallers
    /\ InitOs
    /\ osOnline = 1
    /\ InitHistory
    /\ InitCalls

NextMem == MemCall \/ MemExecDone

SpecMemory == InitMem /\ [][NextMem]_vars

\* the blocks of an output: its longest runs of lines that are not blank
RECURSIVE BlocksOf(_, _, _)
BlocksOf(lines, i, acc) ==
    IF i > Len(lines) THEN acc
    ELSE IF lines[i] = MemBlank THEN BlocksOf(lines, i + 1, acc)
    ELSE IF i > 1 /\ lines[i - 1] # MemBlank
         THEN BlocksOf(lines, i + 1, [acc EXCEPT ![Len(acc)] = Append(@, lines[i])])
    ELSE BlocksOf(lines, i + 1, Append(acc, <<lines[i]>>))

\* the field of MemoryDevice a key of the Windows tool is recorded in, "" for
\* a key that is recorded in none
WinFieldOf(key) ==
    CASE key = <<"Manufacturer">> -> "manufacturer"
      [] key = <<"Capacity">> -> "size"
      [] key \in {<<"DataWidth">>, <<"TotalWidth">>} -> "busWidth"
      [] key \in {<<"Speed">>, <<"ConfiguredClockSpeed">>} -> "clockSpeed"
      [] key = <<"SMBIOSMemoryType">> -> "type"
      [] OTHER -> ""

\* C25: on Windows the devices are the blocks of the output, in order: one
\* device per block, with every recognized field of its block, whether or not
\* blank lines precede the first block or follow the last.
C25_DevicePerBlock ==
    (memPc = "resolved" /\ platform = "win32") =>
        LET blocks == BlocksOf(memLines, 1, <<>>)
            devices == memoryInfo.devices.items
        IN  /\ Len(devices) = Len(blocks)
            /\ \A i \in 1..Len(blocks) : \A j \in 1..Len(blocks[i]) :
                  LET field == WinFieldOf(KeyOf(blocks[i][j], " : "))
                  IN  field # "" => field \in KeysOf(devices[i])

\* the blocks of dmidecode that the heading 'Memory Device' introduces
RECURSIVE MemoryDeviceBlocks(_)
MemoryDeviceBlocks(blocks) ==
    IF blocks = <<>> THEN <<>>
    ELSE (IF \E j \in 1..Len(Head(blocks)) : Head(blocks)[j] = <<"Memory Device">>
          THEN <<Head(blocks)>> ELSE <<>>)
         \o MemoryDeviceBlocks(Tail(blocks))

\* the field of MemoryDevice a key of dmidecode is recorded in, "" for a key
\* that is recorded in none
DmiFieldOf(key) ==
    CASE key = <<"Size">> -> "size"
      [] key \in {<<"Total Width">>, <<"Data Width">>} -> "busWidth"
      [] key \in {<<"Speed">>, <<"Configured Memory Speed">>} -> "clockSpeed"
      [] key = <<"Manufacturer">> -> "manufacturer"
      [] key = <<"Part Number">> -> "model"
      [] key \in {<<"Voltage">>, <<"Configured Voltage">>} -> "voltage"
      [] OTHER -> ""

\* C26: on Linux and macOS every block that the heading 'Memory Device'
\* introduces and that a blank line closes is a device of devices, with the
\* recognized fields of the block; the other blocks are none.
C26_MemoryDeviceRecorded ==
    (memPc = "resolved" /\ platform \in {"linux", "darwin"}
       /\ memLines # <<>> /\ memLines[Len(memLines)] = MemBlank) =>
        LET blocks == MemoryDeviceBlocks(BlocksOf(memLines, 1, <<>>))
            devices == memoryInfo.devices.items
        IN  /\ Len(devices) = Len(blocks)
            /\ \A i \in 1..Len(blocks) : \A j \in 1..Len(blocks[i]) :
                  LET field == DmiFieldOf(KeyOf(blocks[i][j], ": "))
                  IN  field # "" => field \in KeysOf(devices[i])

\* C27: a module that has size, bus width and clock speed has the bandwidth
\* clockSpeed x 1e6 x busWidth/8 x its own transfers per clock cycle (1 when
\* unknown), whatever the modules before it.
C27_OwnTransfers ==
    (memPc = "resolved" /\ memoryInfo.devices.present) =>
        \A i \in 1..Len(memoryInfo.devices.items) :
            LET device == memoryInfo.devices.items[i]
            IN  Qualifies(device) =>
                    device["bandwidth"] =
                        Bandwidth(device["clockSpeed"], device["busWidth"],
                                  OrOne(device["transfersPerClockCycle"]))

\* the least number of a set of numbers that is not empty
LeastOf(S) == CHOOSE x \in S : \A y \in S : FracMin(x, y) = x

\* C28: the bandwidth of the system is (least clock speed) x 1e6 x (least bus
\* width)/8 x (least transfers per clock cycle, 1 when unknown) x max(1,
\* positions), over the modules that have size, bus width and clock speed, in
\* whatever order they are listed; it is not set when there is no such module.
C28_SystemBandwidth ==
    (memPc = "resolved" /\ memoryInfo.devices.present) =>
        LET devices == memoryInfo.devices.items
            q == {i \in 1..Len(devices) : Qualifies(devices[i])}
            positions == Cardinality(interleavePositions)
        IN  IF q = {} THEN memoryInfo.bandwidth = NotSet
            ELSE memoryInfo.bandwidth =
                    FracMul(Bandwidth(LeastOf({devices[i]["clockSpeed"] : i \in q}),
                                      LeastOf({devices[i]["busWidth"] : i \in q}),
                                      LeastOf({OrOne(devices[i]["transfersPerClockCycle"]) :
                                                   i \in q})),
                            Frac(IF positions > 1 THEN positions ELSE 1, 1))

(***************************************************************************)
(* The aggregates of getTemperatures (spec.md 4.5), under SpecTemps.       *)
(***************************************************************************)
\* the arithmetic mean of an array that is present, NotSet of one that is not
MeanIfPresent(arr) == IF arr.present THEN Mean(arr.items) ELSE NotSet

\* C29: in the result, without a direct reading of the CPU (only the Windows
\* query gives one), cpu is the mean of cpuSockets if that array is present,
\* else the mean of cpuCores if present, else not set; gpu and gpuMemory are
\* the means of gpus and gpuMemories when present; no aggregate is not a
\* number, and every array that is present holds a value.
C29_Aggregates ==
    tmpPc = "resolved" =>
        /\ \A arr \in {temperatures.cpuCores, temperatures.cpuSockets, temperatures.gpus,
                       temperatures.gpuMemories} :
              arr.present => Len(arr.items) >= 1
        /\ platform # "win32" =>
              temperatures.cpu = IF temperatures.cpuSockets.present
                                 THEN Mean(temperatures.cpuSockets.items)
                                 ELSE MeanIfPresent(temperatures.cpuCores)
        /\ temperatures.gpu = MeanIfPresent(temperatures.gpus)
        /\ temperatures.gpuMemory = MeanIfPresent(temperatures.gpuMemories)
        /\ NaN \notin {temperatures.cpu, temperatures.gpu, temperatures.gpuMemory}

\* a result with sockets and cores of different means, and two GPUs
C29_Witness ==
    /\ tmpPc = "resolved"
    /\ temperatures.cpuSockets.present
    /\ temperatures.cpuCores.present
    /\ Mean(temperatures.cpuSockets.items) # Mean(temperatures.cpuCores.items)
    /\ temperatures.cpu = Mean(temperatures.cpuSockets.items)
    /\ Len(temperatures.gpus.items) = 2
    /\ temperatures.gpu = Frac(60, 1)

\* the object the batch fills when its tasks classify their readings in the
\* order they were issued in: the zones, then the hwmon devices
InIssueOrder ==
    LET z0 == sensorReads["thermal_zone0"]
        z1 == sensorReads["thermal_zone1"]
        h0 == sensorReads["hwmon0"]
        t1 == IF z0.temp = NotSet THEN NoTemperatures
              ELSE ClassifyThermal(NoTemperatures, z0.name, z0.temp)
        t2 == IF z1.temp = NotSet THEN t1 ELSE ClassifyThermal(t1, z1.name, z1.temp)
    IN  IF h0.temp = NotSet THEN t2 ELSE ClassifyHwmon(t2, h0.name, h0.temp)

\* the scalar fields that the sensor files decide
Scalars(t) ==
    LET r == PostProcess(t)
    IN  [motherboard |-> r.motherboard, wifi |-> r.wifi, battery |-> r.battery,
         cpu |-> r.cpu, gpu |-> r.gpu]

\* C30: the scalar fields do not depend on the order the reads of the batch
\* complete in: once the batch has settled they are what the same readings
\* give when they are classified in the order the tasks were issued in.
C30_OrderIndependent ==
    (platform = "linux" /\ tmpPc = "nvidia") =>
        Scalars(temperatures) = Scalars(InIssueOrder)

====
